---- MODULE Spec2Model ----
(***************************************************************************)
(* The dispatch scheduler of the Luna back end: runLoopForClient, the      *)
(* stop-loop, progress and delete-client handlers and sleepAbortable, over *)
(* the in-process registries (runningClients, stopRequests, progressStates *)
(* and the progress emitters) and the PostgreSQL store reached through the *)
(* shared pg connection pool.                                              *)
(*                                                                         *)
(* JavaScript runs a handler to completion between two awaits, so every    *)
(* action below is one such segment: it starts where an awaited call       *)
(* returns (or throws) and ends where the next call is awaited.  A query   *)
(* takes effect in the action in which its await returns.                  *)
(***************************************************************************)
EXTENDS Integers, Sequences, FiniteSets, TLC

\* ---------------------------------------------------------------- bounds
NPhones == 2          \* contacts a tenant's queue may hold
NConn == 2            \* clients of the connection pool
DailyLimit == 2       \* client_settings.daily_limit of every tenant
MaxBatch == 2         \* largest opts.batchSize / LOOP_BATCH_SIZE passed to a run
MaxFaults == 1        \* store calls that may reject
TimerFaults == 2      \* store calls that may reject next to the daily timer
MaxSwitches == 1      \* times concurrent requests change the pool's next client
MaxRuns == 2          \* runs that may acquire the lock
MaxStops == 1         \* stop-loop requests of one slug awaiting their UPDATE
MaxDeletes == 1       \* delete-client requests that pass the 'not running' check
WindowStartSec == 1   \* DAILY_START_TIME, in seconds since midnight (scaled)
WindowEndSec == 3     \* DAILY_END_TIME, in seconds since midnight (scaled)
MaxCount == 3         \* largest count passed to generateScheduleDelays
MaxSec == 4           \* latest second of the day of a call time or window edge
MaxFirings == 2       \* times the daily timer fires
MaxPushes == 202      \* item events pushed onto one snapshot

\* ------------------------------------------------------ program constants
SleepStep == 250      \* const step = 250 in sleepAbortable
SecondMs == 1000      \* delaySec * 1000
SnapshotCap == 200    \* st.items.length > 200 in snapshotPush

Tenants == {"a", "b"}
Served == {"a"}      \* the tenant whose requests are followed, where not said otherwise
Phones == 1..NPhones  \* the contacts queued at the start
Earlier == NPhones + 1 \* a contact that may have been sent to earlier today
Conns == 1..NConn
RunIds == 1..MaxRuns  \* the activations of runLoopForClient, in order of entry
TableNames == Tenants \X {"queue", "totais"}

VARIABLES
  runningClients,   \* Set of slugs with an active run (single-flight registry)
  stopRequests,     \* Set of slugs whose stop was requested
  progressStates,   \* Map slug -> {lastStart, items, lastEnd}
  run,              \* per activation: the locals and position of runLoopForClient
  emitted,          \* per slug: the progress events emitted since the last start
  listeners,        \* per slug: the /api/progress response listening, and its writes
  stopLoop,         \* per slug: stop-loop handlers awaiting their UPDATE
  stopRet,          \* what the last stop-loop request that was answered got
  deleteClient,     \* per slug: the position of a delete-client handler
  deletes,          \* delete-client requests that have passed their check
  queueDelete,      \* per slug: the position and inputs of a DELETE /api/queue handler
  schedule,         \* a call of generateScheduleDelays: its inputs and locals
  loopState,        \* per slug: the position and locals of a loop-state handler
  autoRun,          \* the daily timer: armed or the position of its callback
  db,               \* the store: committed tables and each pool client's session
  delivered,        \* per slug: phones the dispatcher has sent a message to
  ret,              \* what the last runLoopForClient call that returned answered
  idleTop,          \* the pool client handed to the next pool.query
  switches,         \* times other requests have changed that client
  faults,           \* store calls that may still reject
  runs              \* runs that have acquired the lock so far

vars == <<runningClients, stopRequests, progressStates, emitted, listeners,
          run, stopLoop, stopRet, deleteClient, deletes, queueDelete, schedule, loopState,
          autoRun, db, delivered, ret, idleTop, switches, faults, runs>>

\* ------------------------------------------------------------- the store
\* A pool client's session.  An open transaction holds its writes until
\* COMMIT ("-" in st: no pending write of that slug's settings row), keeps
\* the tables it has used locked, and after a failed statement refuses
\* every statement until it is ended.
NoTxn == [open |-> FALSE, aborted |-> FALSE, del |-> {}, mark |-> {},
          st |-> [t \in Tenants |-> "-"], drop |-> {}, touch |-> {}]

\* The table exists for a statement running on client c.
Visible(d, c, tb) == tb \in d.tables /\ tb \notin d.txn[c].drop

\* What a statement running on client c sees (READ COMMITTED: the
\* committed rows and the session's own pending writes).
QueueView(d, c, t) == d.queue[t] \ {p \in Phones : <<t, p>> \in d.txn[c].del}
SentView(d, c, t) == d.totais[t] \cup {p \in Phones : <<t, p>> \in d.txn[c].mark}
StatusView(d, c, t) ==
  IF d.txn[c].st[t] # "-" THEN d.txn[c].st[t] ELSE d.settings[t]

\* A statement on client c that names the tables T is answered with an
\* error: its transaction is aborted or one of the tables does not exist.
Throws(d, c, T) == d.txn[c].aborted \/ \E tb \in T : ~Visible(d, c, tb)

\* The error of a statement aborts the open transaction of its session.
Abort(d, c) == IF d.txn[c].open THEN [d EXCEPT !.txn[c].aborted = TRUE] ELSE d

\* A statement on client c waits while another session has dropped one of
\* its tables and not committed.
TableWait(d, c, T) ==
  \E o \in Conns \ {c} : d.txn[o].open /\ T \cap d.txn[o].drop # {}

\* Inside a transaction a statement keeps its tables locked until the end.
Touch(d, c, T) ==
  IF d.txn[c].open THEN [d EXCEPT !.txn[c].touch = @ \cup T] ELSE d

\* A write waits while another session holds an uncommitted write of the
\* same row.
RowLocked(d, c, kind, t, p) ==
  \E o \in Conns \ {c} :
    /\ d.txn[o].open
    /\ CASE kind = "queue" -> <<t, p>> \in d.txn[o].del
         [] kind = "totais" -> <<t, p>> \in d.txn[o].mark
         [] OTHER -> d.txn[o].st[t] # "-"

\* pool.query('BEGIN') on client c.
Begin(d, c) == [d EXCEPT !.txn[c].open = TRUE]

\* pool.query('ROLLBACK') on client c.
Rollback(d, c) == [d EXCEPT !.txn[c] = NoTxn]

\* The tables S and their rows are gone.
Dropped(d, S) ==
  [d EXCEPT
     !.tables = @ \ S,
     !.queue = [t \in Tenants |-> IF <<t, "queue">> \in S THEN {} ELSE @[t]],
     !.totais = [t \in Tenants |-> IF <<t, "totais">> \in S THEN {} ELSE @[t]]]

\* pool.query('COMMIT') on client c: the session's pending writes become
\* the committed rows (an aborted transaction is rolled back instead);
\* without an open transaction nothing happens.
Commit(d, c) ==
  LET x == d.txn[c] IN
  IF ~x.open THEN d
  ELSE IF x.aborted THEN Rollback(d, c)
  ELSE Dropped(
         [d EXCEPT
            !.queue = [t \in Tenants |->
                         d.queue[t] \ {p \in Phones : <<t, p>> \in x.del}],
            !.totais = [t \in Tenants |->
                         d.totais[t] \cup {p \in Phones : <<t, p>> \in x.mark}],
            !.settings = [t \in Tenants |->
                         IF x.st[t] # "-" THEN x.st[t] ELSE d.settings[t]],
            !.txn[c] = NoTxn],
         x.drop)

\* DELETE FROM "<slug>" WHERE phone = $1 on client c.
DeleteFromQueue(d, c, t, p) ==
  IF d.txn[c].open
  THEN IF p \in QueueView(d, c, t)
       THEN [d EXCEPT !.txn[c].del = @ \cup {<<t, p>>}] ELSE d
  ELSE [d EXCEPT !.queue[t] = @ \ {p}]

\* INSERT INTO "<slug>_totais" ... ON CONFLICT (phone) DO UPDATE SET
\* mensagem_enviada = true, updated_at = NOW() on client c.
UpsertSent(d, c, t, p) ==
  IF d.txn[c].open
  THEN [d EXCEPT !.txn[c].mark = @ \cup {<<t, p>>}]
  ELSE [d EXCEPT !.totais[t] = @ \cup {p}]

\* INSERT INTO client_settings ... ON CONFLICT (slug) DO UPDATE SET
\* loop_status = s on client c (creates the row when there is none).
UpsertStatus(d, c, t, s) ==
  IF d.txn[c].open
  THEN [d EXCEPT !.txn[c].st[t] = s]
  ELSE [d EXCEPT !.settings[t] = s]

\* UPDATE client_settings SET loop_status = s WHERE slug = $1 on client c
\* (no row, no write).
UpdateStatus(d, c, t, s) ==
  IF StatusView(d, c, t) = "none" THEN d ELSE UpsertStatus(d, c, t, s)

\* DELETE FROM client_settings WHERE slug = $1 on client c.
DeleteSettings(d, c, t) == UpdateStatus(d, c, t, "none")

\* A session holds a lock on the table that a DROP has to wait for.
DropWait(d, c, tb) ==
  \E o \in Conns \ {c} :
    d.txn[o].open /\ (tb \in d.txn[o].touch \/ tb \in d.txn[o].drop)

\* DROP TABLE IF EXISTS "<name>" CASCADE on client c.
DropTable(d, c, tb) ==
  IF ~Visible(d, c, tb) THEN d
  ELSE IF d.txn[c].open THEN [d EXCEPT !.txn[c].drop = @ \cup {tb}]
  ELSE Dropped(d, {tb})

\* ------------------------------------------------------- schedule.js
Max(a, b) == IF a >= b THEN a ELSE b
Min(a, b) == IF a <= b THEN a ELSE b

\* Array.from(offsets).sort((a, b) => a - b)
RECURSIVE SortAsc(_)
SortAsc(S) ==
  IF S = {} THEN <<>>
  ELSE LET m == CHOOSE x \in S : \A y \in S : x <= y
       IN <<m>> \o SortAsc(S \ {m})

\* hmsToSeconds of a time 'HH:MM:SS', given as <<h, m, s>>.
hmsToSeconds(hms) == hms[1] * 3600 + hms[2] * 60 + hms[3]

\* A sample size that is not capped by the span of the window.
msgCountUncapped(count, span) == count

\* const msgCount = Math.min(count, span)
msgCount(count, span) == Min(count, span)

\* Delays whose first one forgets the wait until the window opens.
DelaysFromStart(nowSec, effectiveStart, offsets) ==
  LET sortedOffsets == SortAsc(offsets) IN
  [k \in 1..Len(sortedOffsets) |->
     IF k = 1 THEN sortedOffsets[1]
     ELSE sortedOffsets[k] - sortedOffsets[k - 1]]

\* The delays pushed for the sorted offsets: the first one counts from the
\* call time, every other one from the offset before it.
Delays(nowSec, effectiveStart, offsets) ==
  LET sortedOffsets == SortAsc(offsets) IN
  [k \in 1..Len(sortedOffsets) |->
     IF k = 1 THEN (effectiveStart - nowSec) + sortedOffsets[1]
     ELSE sortedOffsets[k] - sortedOffsets[k - 1]]

\* The sets the sampling loop `while (offsets.size < msgCount)
\* offsets.add(floor(random() * (span + 1)))` can end with.
OffsetDraws(count, nowSec) ==
  LET effectiveStart == Max(nowSec, WindowStartSec)
      span == WindowEndSec - effectiveStart
      size == Max(0, msgCount(count, span))
  IN {S \in SUBSET (0..Max(span, 0)) : Cardinality(S) = size}

\* A generator that answers a closed window with one immediate send.
generateScheduleDelaysLate(count, nowSec, offsets) ==
  LET effectiveStart == Max(nowSec, WindowStartSec) IN
  IF WindowEndSec <= effectiveStart THEN <<0>>
  ELSE Delays(nowSec, effectiveStart, offsets)

\* generateScheduleDelays(count, DAILY_START_TIME, DAILY_END_TIME) called
\* at second nowSec of the day, the sampling loop having drawn `offsets`.
generateScheduleDelays(count, nowSec, offsets) ==
  LET effectiveStart == Max(nowSec, WindowStartSec) IN
  IF WindowEndSec <= effectiveStart THEN <<>>
  ELSE Delays(nowSec, effectiveStart, offsets)

\* ------------------------------------------------------- progress.js
NoSnapshot == [has |-> FALSE, lastStart |-> <<>>, items |-> <<>>, lastEnd |-> <<>>]

snapshotStart(total) ==
  [has |-> TRUE, lastStart |-> <<[total |-> total]>>, items |-> <<>>,
   lastEnd |-> <<>>]

\* A push that keeps every event.
snapshotPushUncapped(st, evt) ==
  IF ~st.has THEN st ELSE [st EXCEPT !.items = Append(@, evt)]

snapshotPush(st, evt) ==
  IF ~st.has THEN st
  ELSE LET xs == Append(st.items, evt)
       IN [st EXCEPT !.items = IF Len(xs) > SnapshotCap THEN Tail(xs) ELSE xs]

snapshotEnd(st, processed, reason) ==
  IF ~st.has THEN st
  ELSE [st EXCEPT !.lastEnd = <<[processed |-> processed, reason |-> reason]>>]

\* The payloads of the progress events (their `at` stamps left out).
StartEvent(total) == [total |-> total]
ItemEvent(r) ==
  [phone |-> r.phone, ok |-> r.shouldMark /\ ~r.manualStop,
   status |-> IF r.manualStop THEN "stopped" ELSE r.status]
ScheduleEvent(planCount, remainingToday, cap) ==
  [planned |-> planCount, remainingToday |-> remainingToday, cap |-> cap]
EndEvent(processed, reason) == [processed |-> processed, reason |-> reason]

IsStart(e) == "total" \in DOMAIN e
IsItem(e) == "phone" \in DOMAIN e
IsSchedule(e) == "planned" \in DOMAIN e
IsEnd(e) == "reason" \in DOMAIN e

\* An /api/progress response: not requested yet, open (its onProgress
\* listening on the slug's emitter) or closed, and the events written to it.
NoListener == [st |-> "none", got |-> <<>>]

\* What emit('progress', evt) on the slug's emitter does to a response:
\* onProgress writes the event while the listener is attached.
onProgress(l, evt) ==
  IF l.st = "open" THEN [l EXCEPT !.got = Append(@, evt)] ELSE l

\* getEmitter(slug).emit('progress', evt).
Emit(t, evt) ==
  /\ emitted' = [emitted EXCEPT
       ![t] = IF IsStart(evt) THEN <<evt>> ELSE Append(@, evt)]
  /\ listeners' = [listeners EXCEPT ![t] = onProgress(@, evt)]

\* No call of generateScheduleDelays is being followed.
NoSchedule ==
  [pc |-> "none", count |-> 0, nowSec |-> 0, startSec |-> 0, endSec |-> 0,
   offsets |-> {}, delays |-> <<>>]

\* No /api/loop-state request of the slug has been made.
NoLoopState ==
  [pc |-> "none", loop_status |-> "idle", isActuallyRunning |-> FALSE]

\* No DELETE /api/queue request of the slug has been made.
NoQueueDelete == [pc |-> "none", phone |-> 0, markSent |-> FALSE]

\* The daily timer is set and its callback has not fired.
Armed ==
  [pc |-> "armed", auto |-> {}, rows |-> <<>>, firings |-> 0, started |-> {}]

\* ------------------------------------------------- runLoopForClient
IdleRun ==
  [pc |-> "idle", slug |-> "", batchSize |-> 0, useIA |-> FALSE,
   remainingToday |-> 0, scheduleDelays |-> <<>>, messageLimit |-> 0,
   i |-> 0, elapsed |-> 0, manualStop |-> FALSE, processed |-> 0,
   attemptedPhones |-> {}, phone |-> 0, status |-> "skipped",
   shouldMark |-> FALSE]

\* The process after start-up: empty registries; the tenants `created`
\* have their tables, a full queue, the history `sentEarlier` of today and
\* the loop_status `persisted`, written before the process started.
\* `rejecting` store calls may reject.
InitStored(created, sentEarlier, rejecting, reordered, persisted) ==
  /\ runningClients = {}
  /\ stopRequests = {}
  /\ progressStates = [t \in Tenants |-> NoSnapshot]
  /\ emitted = [t \in Tenants |-> <<>>]
  /\ listeners = [t \in Tenants |-> NoListener]
  /\ run = [s \in RunIds |-> IdleRun]
  /\ stopLoop = [t \in Tenants |-> 0]
  /\ stopRet = [slug |-> "", status |-> "none"]
  /\ deleteClient = [t \in Tenants |-> "idle"]
  /\ deletes = 0
  /\ queueDelete = [t \in Tenants |-> NoQueueDelete]
  /\ loopState = [t \in Tenants |-> NoLoopState]
  /\ autoRun = Armed
  /\ db = [tables |-> created \X {"queue", "totais"},
           queue |-> [t \in Tenants |-> IF t \in created THEN Phones ELSE {}],
           totais |-> [t \in Tenants |->
                        IF t \in created THEN sentEarlier ELSE {}],
           settings |-> [t \in Tenants |->
                        IF t \in created THEN persisted ELSE "none"],
           txn |-> [c \in Conns |-> NoTxn]]
  /\ delivered = [t \in Tenants |-> {}]
  /\ ret = [slug |-> "", status |-> "none", processed |-> 0]
  /\ idleTop = 1
  /\ switches = reordered
  /\ faults = rejecting
  /\ runs = 0

\* The same with every loop_status 'idle'.
InitWith(created, sentEarlier, rejecting, reordered) ==
  InitStored(created, sentEarlier, rejecting, reordered, "idle")

Init ==
  \E created \in SUBSET Served, sentEarlier \in SUBSET {Earlier} :
    InitWith(created, sentEarlier, MaxFaults, 0) /\ schedule = NoSchedule

\* A store call rejects (pool.query throws before the statement runs).
Reject == faults > 0 /\ faults' = faults - 1

\* An awaited pool.query throws: the call rejects, or the server answers
\* the statement, which names the tables T, with an error.
Throw(T) ==
  \/ Reject /\ UNCHANGED db
  \/ /\ \E c \in {idleTop} : Throws(db, c, T) /\ db' = Abort(db, c)
     /\ UNCHANGED faults

\* The statement naming the tables T can run on client c now.
Runs(d, c, T) == ~Throws(d, c, T) /\ ~TableWait(d, c, T)

\* The finally block without its runningClients.delete.
ReturnHolding(s, status, processed) ==
  /\ ret' = [slug |-> run[s].slug, status |-> status, processed |-> processed]
  /\ stopRequests' = stopRequests \ {run[s].slug}
  /\ runningClients' = runningClients
  /\ run' = [run EXCEPT ![s] = IdleRun]

\* `return {processed, status}` followed by the finally block.
Return(s, status, processed) ==
  /\ ret' = [slug |-> run[s].slug, status |-> status, processed |-> processed]
  /\ stopRequests' = stopRequests \ {run[s].slug}
  /\ runningClients' = runningClients \ {run[s].slug}
  /\ run' = [run EXCEPT ![s] = IdleRun]

\* The outer catch: `return {processed: 0, status: 'error'}`, then finally.
Catch(s) == Return(s, "error", 0)

\* Leaving the for loop (a break, or i reaching messageLimit): the final
\* status write is awaited next.
Break(r) == [r EXCEPT !.pc = "setIdleEnd"]

\* The head of one loop iteration up to its first await: the loop
\* condition, the stop and quota checks, then sleepAbortable's first poll
\* or, with no delay, the check after the sleep.
LoopTop(r, stop) ==
  IF r.i >= r.messageLimit THEN Break(r)
  ELSE IF stop THEN Break([r EXCEPT !.manualStop = TRUE])
  ELSE IF r.i >= r.remainingToday THEN Break(r)
  ELSE IF r.scheduleDelays[r.i + 1] > 0
       THEN [r EXCEPT !.pc = "sleep", !.elapsed = 0]
       ELSE [r EXCEPT !.pc = "select", !.elapsed = 0]

\* Lines 1278-1319 up to the next await, the dispatcher's answer being in
\* r.status and r.shouldMark: the stop check, then either BEGIN is issued
\* or the item is published as 'stopped' and the loop is left.
AfterDispatch(r, stop) ==
  IF stop THEN Break([r EXCEPT !.manualStop = TRUE])
  ELSE [r EXCEPT !.pc = "begin"]

\* A loop whose counter is not advanced.
NextIterationSame(r, stop) == LoopTop(r, stop)

\* After COMMIT or ROLLBACK: the next iteration begins (the item has been
\* published by the calling action).
NextIteration(r, stop) == LoopTop([r EXCEPT !.i = @ + 1], stop)

\* A selection that forgets `AND f.phone NOT IN (...)`.
EligibleAgain(d, c, t, attempted) ==
  {p \in QueueView(d, c, t) : p \notin SentView(d, c, t)}

\* The queue rows the selection query on client c may return: not marked
\* sent in totais and not attempted in this run.
Eligible(d, c, t, attempted) ==
  {p \in QueueView(d, c, t) : p \notin SentView(d, c, t) /\ p \notin attempted}

\* ORDER BY f.name LIMIT 1 (contacts are named in the order of their phones).
FirstByName(S) == CHOOSE p \in S : \A q \in S : p <= q

\* Lines 1104-1117: the slug is valid; a slug in the registry is answered
\* already_running, any other is added and the 'running' write is awaited.
AlreadyRunning(t) ==
  /\ t \in runningClients
  /\ ret' = [slug |-> t, status |-> "already_running", processed |-> 0]
  /\ UNCHANGED <<runningClients, stopRequests, progressStates, emitted, listeners, run, stopLoop, stopRet,
                 deleteClient, deletes, queueDelete, schedule, loopState, autoRun, db, delivered, faults, runs, idleTop,
                 switches>>

Acquire(t, batchSize) ==
  /\ t \notin runningClients
  /\ runningClients' = runningClients \cup {t}
  /\ run' = [run EXCEPT ![runs + 1] =
               [IdleRun EXCEPT !.pc = "setRunning", !.slug = t,
                               !.batchSize = batchSize]]

\* A call runLoopForClient(t, {batchSize}) with batchSize among `sizes`.
Start(t, sizes) ==
  /\ runs < MaxRuns
  /\ \E batchSize \in sizes : Acquire(t, batchSize)
  /\ runs' = runs + 1
  /\ UNCHANGED <<stopRequests, progressStates, emitted, listeners, stopLoop, stopRet, deleteClient,
                 deletes, queueDelete, schedule, loopState, autoRun, db, delivered, ret, faults, idleTop, switches>>

\* Lines 1112-1119: the 'running' upsert returns; tableExists is awaited.
SetRunning(s) ==
  /\ run[s].pc = "setRunning"
  /\ \/ /\ \E c \in {idleTop} :
             /\ Runs(db, c, {})
             /\ ~RowLocked(db, c, "settings", run[s].slug, 0)
             /\ db' = UpsertStatus(db, c, run[s].slug, "running")
        /\ run' = [run EXCEPT ![s].pc = "tableExists"]
        /\ UNCHANGED <<runningClients, stopRequests, ret, faults>>
     \/ Throw({}) /\ Catch(s)
  /\ UNCHANGED <<progressStates, emitted, listeners, stopLoop, stopRet, deleteClient, deletes, queueDelete, schedule, loopState, autoRun, delivered,
                 runs, idleTop, switches>>

\* Lines 1119-1133: to_regclass answers; without a queue table the 'idle'
\* upsert is awaited, otherwise the COUNT of the queue.
TableExists(s) ==
  /\ run[s].pc = "tableExists"
  /\ \/ /\ \E c \in {idleTop} :
             /\ Runs(db, c, {})
             /\ run' = [run EXCEPT ![s].pc =
                          IF Visible(db, c, <<run[s].slug, "queue">>)
                          THEN "countQueue" ELSE "setIdleMissing"]
        /\ UNCHANGED <<runningClients, stopRequests, ret, faults, db>>
     \/ Throw({}) /\ Catch(s)
  /\ UNCHANGED <<progressStates, emitted, listeners, stopLoop, stopRet, deleteClient, deletes, queueDelete, schedule, loopState, autoRun, delivered,
                 runs, idleTop, switches>>

\* Lines 1121-1127: the 'idle' upsert returns; `return {processed: 0,
\* status: 'ok'}`.
SetIdleMissing(s) ==
  /\ run[s].pc = "setIdleMissing"
  /\ \/ /\ \E c \in {idleTop} :
             /\ Runs(db, c, {})
             /\ ~RowLocked(db, c, "settings", run[s].slug, 0)
             /\ db' = UpsertStatus(db, c, run[s].slug, "idle")
        /\ Return(s, "ok", 0)
        /\ UNCHANGED faults
     \/ Throw({}) /\ Catch(s)
  /\ UNCHANGED <<progressStates, emitted, listeners, stopLoop, stopRet, deleteClient, deletes, queueDelete, schedule, loopState, autoRun, delivered,
                 runs, idleTop, switches>>

\* Lines 1131-1143: the COUNT returns (a failure leaves totalCount 0); the
\* start snapshot is taken and getClientSettings is awaited.
CountQueue(s) ==
  LET t == run[s].slug
      T == {<<t, "queue">>}
  IN
  /\ run[s].pc = "countQueue"
  /\ \/ /\ \E c \in {idleTop} :
             /\ Runs(db, c, T)
             /\ db' = Touch(db, c, T)
             /\ progressStates' = [progressStates EXCEPT
                  ![t] = snapshotStart(Cardinality(QueueView(db, c, t)))]
             /\ Emit(t, StartEvent(Cardinality(QueueView(db, c, t))))
        /\ UNCHANGED faults
     \/ /\ Throw(T)
        /\ progressStates' = [progressStates EXCEPT ![t] = snapshotStart(0)]
        /\ Emit(t, StartEvent(0))
  /\ run' = [run EXCEPT ![s].pc = "getSettings"]
  /\ UNCHANGED <<runningClients, stopRequests, stopLoop, stopRet, deleteClient,
                 deletes, queueDelete, schedule, loopState, autoRun, delivered, ret, runs, idleTop, switches>>

\* opts.iaAutoOverride of a call whose settings row may hold the ia_auto
\* values `flags`: absent (<<>>), or a boolean (<<b>>).
Overrides(flags) == {<<>>} \cup {<<b>> : b \in flags}

\* typeof opts.iaAutoOverride === 'boolean' ? opts.iaAutoOverride
\*                                          : !!settings.ia_auto
useIA(iaAutoOverride, ia_auto) ==
  IF iaAutoOverride # <<>> THEN iaAutoOverride[1] ELSE ia_auto

\* Lines 1143-1153: the settings row returns; useIA is the per-call
\* override or the row's ia_auto; the count of today's sends is awaited.
GetSettings(s, flags) ==
  /\ run[s].pc = "getSettings"
  /\ \/ /\ \E c \in {idleTop} : Runs(db, c, {})
        /\ \E iaAutoOverride \in Overrides(flags), ia_auto \in flags :
             run' = [run EXCEPT ![s].pc = "countSent",
                                ![s].useIA = useIA(iaAutoOverride, ia_auto)]
        /\ UNCHANGED <<runningClients, stopRequests, ret, faults, db>>
     \/ Throw({}) /\ Catch(s)
  /\ UNCHANGED <<progressStates, emitted, listeners, stopLoop, stopRet, deleteClient, deletes, queueDelete, schedule, loopState, autoRun, delivered,
                 runs, idleTop, switches>>

\* Lines 1165-1205 after alreadySentToday is known: the stop check, the
\* quota check, the schedule (drawn at one of the seconds `times` of the
\* day) and the head of the first iteration.
Plan(s, alreadySentToday, times) ==
  LET t == run[s].slug
      manualStop == t \in stopRequests
      remainingToday == Max(0, DailyLimit - alreadySentToday)
  IN IF ~manualStop /\ remainingToday <= 0
     THEN /\ progressStates' = [progressStates EXCEPT
                ![t] = snapshotEnd(@, run[s].processed, "daily_quota")]
          /\ Emit(t, EndEvent(run[s].processed, "daily_quota"))
          /\ run' = [run EXCEPT ![s].pc = "setIdleQuota"]
     ELSE /\ \E nowSec \in times :
               \E offsets \in OffsetDraws(DailyLimit, nowSec) :
                 LET scheduleDelays ==
                       generateScheduleDelays(DailyLimit, nowSec, offsets)
                     messageLimit ==
                       Min(run[s].batchSize, Len(scheduleDelays))
                     planCount == Min(messageLimit, remainingToday)
                 IN /\ run' = [run EXCEPT ![s] = LoopTop(
                         [@ EXCEPT !.scheduleDelays = scheduleDelays,
                                   !.messageLimit = messageLimit,
                                   !.remainingToday = remainingToday,
                                   !.manualStop = manualStop],
                         manualStop)]
                    /\ IF manualStop
                       THEN UNCHANGED <<emitted, listeners>>
                       ELSE Emit(t, ScheduleEvent(planCount, remainingToday,
                                                  DailyLimit))
          /\ UNCHANGED progressStates

\* Lines 1153-1205: the count of today's sends returns (a failure leaves
\* alreadySentToday 0).
CountSent(s, times) ==
  LET t == run[s].slug
      T == {<<t, "totais">>}
  IN
  /\ run[s].pc = "countSent"
  /\ \/ /\ \E c \in {idleTop} :
             /\ Runs(db, c, T)
             /\ db' = Touch(db, c, T)
             /\ Plan(s, Cardinality(SentView(db, c, t)), times)
        /\ UNCHANGED faults
     \/ Throw(T) /\ Plan(s, 0, times)
  /\ UNCHANGED <<runningClients, stopRequests, stopLoop, stopRet, deleteClient,
                 deletes, queueDelete, schedule, loopState, autoRun, delivered, ret, runs, idleTop, switches>>

\* Lines 1174-1175: the 'idle' update returns; `return {processed, status:
\* 'quota_reached'}`.
SetIdleQuota(s) ==
  /\ run[s].pc = "setIdleQuota"
  /\ \/ /\ \E c \in {idleTop} :
             /\ Runs(db, c, {})
             /\ ~RowLocked(db, c, "settings", run[s].slug, 0)
             /\ db' = UpdateStatus(db, c, run[s].slug, "idle")
        /\ Return(s, "quota_reached", run[s].processed)
        /\ UNCHANGED faults
     \/ Throw({}) /\ Catch(s)
  /\ UNCHANGED <<progressStates, emitted, listeners, stopLoop, stopRet, deleteClient, deletes, queueDelete, schedule, loopState, autoRun, delivered,
                 runs, idleTop, switches>>

\* A loop without the check of line 1205.
AfterSleepUnchecked(r, stop) == [r EXCEPT !.pc = "select"]

\* Line 1205, reached when sleepAbortable answered 'ok': a stop requested
\* meanwhile ends the loop, otherwise the selection query is awaited.
AfterSleep(r, stop) ==
  IF stop THEN Break([r EXCEPT !.manualStop = TRUE])
  ELSE [r EXCEPT !.pc = "select"]

\* A sleep that does not poll the stop flag between its timers.
sleepThrough(r, stop, elapsed, ms) ==
  IF elapsed < ms THEN [r EXCEPT !.elapsed = elapsed]
  ELSE AfterSleep([r EXCEPT !.elapsed = elapsed], stop)

\* sleepAbortable(ms, slug) when one of its timers expires with `elapsed`
\* already advanced by step: below ms the stop flag is polled ('aborted'
\* sets manualStop and leaves the loop, line 1202) and the next timer is
\* set; at ms the answer is 'ok'.
sleepAbortable(r, stop, elapsed, ms) ==
  IF elapsed < ms
  THEN IF stop
       THEN Break([r EXCEPT !.manualStop = TRUE, !.elapsed = elapsed])
       ELSE [r EXCEPT !.elapsed = elapsed]
  ELSE AfterSleep([r EXCEPT !.elapsed = elapsed], stop)

\* One timer of sleepAbortable expires.
SleepTick(s) ==
  /\ run[s].pc = "sleep"
  /\ run' = [run EXCEPT ![s] =
       sleepAbortable(@, @.slug \in stopRequests, @.elapsed + SleepStep,
                      @.scheduleDelays[@.i + 1] * SecondMs)]
  /\ UNCHANGED <<runningClients, stopRequests, progressStates, emitted, listeners, stopLoop, stopRet,
                 deleteClient, deletes, queueDelete, schedule, loopState, autoRun, db, delivered, ret, faults, runs,
                 idleTop, switches>>

\* Lines 1255-1319 once the outcome of the contact is known.
Resolve(s, r) ==
  LET r2 == AfterDispatch(r, r.slug \in stopRequests) IN
  /\ run' = [run EXCEPT ![s] = r2]
  /\ IF r2.manualStop
     THEN /\ progressStates' = [progressStates EXCEPT
                ![r.slug] = snapshotPush(@, ItemEvent(r2))]
          /\ Emit(r.slug, ItemEvent(r2))
     ELSE UNCHANGED <<progressStates, emitted, listeners>>

\* Lines 1229-1276: the selection query returned `rows` on client c.
Selected(s, c) ==
  LET E == Eligible(db, c, run[s].slug, run[s].attemptedPhones) IN
  IF E = {}
  THEN /\ run' = [run EXCEPT ![s] = Break(@)]
       /\ UNCHANGED <<progressStates, emitted, listeners>>
  ELSE LET phone == FirstByName(E)
           r == [run[s] EXCEPT !.phone = phone,
                               !.attemptedPhones = @ \cup {phone},
                               !.status = "skipped", !.shouldMark = FALSE]
       IN IF r.useIA
          THEN /\ run' = [run EXCEPT ![s] = [r EXCEPT !.pc = "dispatch"]]
               /\ UNCHANGED <<progressStates, emitted, listeners>>
          ELSE Resolve(s, r)

\* The tables the selection queries name.
Both(s) == {<<run[s].slug, "queue">>, <<run[s].slug, "totais">>}

\* Lines 1220-1231: the selection query returns, or throws and the
\* fallback query is awaited.
Select(s) ==
  /\ run[s].pc = "select"
  /\ \/ /\ \E c \in {idleTop} :
             /\ Runs(db, c, Both(s))
             /\ db' = Touch(db, c, Both(s))
             /\ Selected(s, c)
        /\ UNCHANGED faults
     \/ /\ Throw(Both(s))
        /\ run' = [run EXCEPT ![s].pc = "selectFallback"]
        /\ UNCHANGED <<progressStates, emitted, listeners>>
  /\ UNCHANGED <<runningClients, stopRequests, stopLoop, stopRet, deleteClient,
                 deletes, queueDelete, schedule, loopState, autoRun, delivered, ret, runs, idleTop, switches>>

\* Lines 1233-1251: the fallback query (and its niche lookup) returns, or
\* throws into the outer catch.
SelectFallback(s) ==
  /\ run[s].pc = "selectFallback"
  /\ \/ /\ \E c \in {idleTop} :
             /\ Runs(db, c, Both(s))
             /\ db' = Touch(db, c, Both(s))
             /\ Selected(s, c)
        /\ UNCHANGED <<runningClients, stopRequests, ret, faults>>
     \/ Throw(Both(s)) /\ Catch(s) /\ UNCHANGED <<progressStates, emitted, listeners>>
  /\ UNCHANGED <<stopLoop, stopRet, deleteClient, deletes, queueDelete, schedule, loopState, autoRun, delivered, runs, idleTop,
                 switches>>

\* Lines 1261-1278: runIAForContact answers ok or not ok (it catches its
\* own errors).
Dispatch(s) ==
  /\ run[s].pc = "dispatch"
  /\ \E ok \in BOOLEAN :
       /\ delivered' = IF ok
            THEN [delivered EXCEPT ![run[s].slug] = @ \cup {run[s].phone}]
            ELSE delivered
       /\ Resolve(s, [run[s] EXCEPT
                        !.status = IF ok THEN "success" ELSE "error",
                        !.shouldMark = ok])
  /\ UNCHANGED <<runningClients, stopRequests, stopLoop, stopRet, deleteClient,
                 deletes, queueDelete, schedule, loopState, autoRun, db, ret, faults, runs, idleTop, switches>>

\* A statement of the try block of lines 1283-1305 throws: ROLLBACK is
\* awaited.
ToRollback(s, T) ==
  /\ Throw(T)
  /\ run' = [run EXCEPT ![s].pc = "rollback"]

\* Line 1284: BEGIN returns.
BeginTx(s) ==
  /\ run[s].pc = "begin"
  /\ \/ /\ \E c \in {idleTop} : Runs(db, c, {}) /\ db' = Begin(db, c)
        /\ run' = [run EXCEPT ![s].pc = "delete"]
        /\ UNCHANGED faults
     \/ ToRollback(s, {})
  /\ UNCHANGED <<runningClients, stopRequests, progressStates, emitted, listeners, stopLoop, stopRet,
                 deleteClient, deletes, queueDelete, schedule, loopState, autoRun, delivered, ret, runs, idleTop,
                 switches>>

\* Line 1287: the DELETE returns.
DeleteTx(s) ==
  LET t == run[s].slug
      T == {<<t, "queue">>}
  IN
  /\ run[s].pc = "delete"
  /\ \/ /\ \E c \in {idleTop} :
             /\ Runs(db, c, T)
             /\ ~RowLocked(db, c, "queue", t, run[s].phone)
             /\ db' = Touch(DeleteFromQueue(db, c, t, run[s].phone), c, T)
        /\ run' = [run EXCEPT ![s].pc =
                     IF run[s].shouldMark THEN "insert" ELSE "commit"]
        /\ UNCHANGED faults
     \/ ToRollback(s, T)
  /\ UNCHANGED <<runningClients, stopRequests, progressStates, emitted, listeners, stopLoop, stopRet,
                 deleteClient, deletes, queueDelete, schedule, loopState, autoRun, delivered, ret, runs, idleTop,
                 switches>>

\* Lines 1291-1298: the upsert into totais returns; processed++.
InsertTx(s) ==
  LET t == run[s].slug
      T == {<<t, "totais">>}
  IN
  /\ run[s].pc = "insert"
  /\ \/ /\ \E c \in {idleTop} :
             /\ Runs(db, c, T)
             /\ ~RowLocked(db, c, "totais", t, run[s].phone)
             /\ db' = Touch(UpsertSent(db, c, t, run[s].phone), c, T)
        /\ run' = [run EXCEPT ![s].pc = "commit", ![s].processed = @ + 1]
        /\ UNCHANGED faults
     \/ ToRollback(s, T)
  /\ UNCHANGED <<runningClients, stopRequests, progressStates, emitted, listeners, stopLoop, stopRet,
                 deleteClient, deletes, queueDelete, schedule, loopState, autoRun, delivered, ret, runs, idleTop,
                 switches>>

\* Lines 1313-1319 and the head of the next iteration: the item event is
\* published and the loop goes on.
Publish(s) ==
  /\ progressStates' = [progressStates EXCEPT
       ![run[s].slug] = snapshotPush(@, ItemEvent(run[s]))]
  /\ Emit(run[s].slug, ItemEvent(run[s]))
  /\ run' = [run EXCEPT ![s] = NextIteration(@, @.slug \in stopRequests)]

\* Line 1301: COMMIT returns.
CommitTx(s) ==
  /\ run[s].pc = "commit"
  /\ \/ /\ \E c \in {idleTop} : db' = Commit(db, c)
        /\ Publish(s)
        /\ UNCHANGED faults
     \/ /\ Reject /\ UNCHANGED <<db, progressStates, emitted, listeners>>
        /\ run' = [run EXCEPT ![s].pc = "rollback"]
  /\ UNCHANGED <<runningClients, stopRequests, stopLoop, stopRet, deleteClient,
                 deletes, queueDelete, schedule, loopState, autoRun, delivered, ret, runs, idleTop, switches>>

\* Line 1307: ROLLBACK returns, or throws into the outer catch.
RollbackTx(s) ==
  /\ run[s].pc = "rollback"
  /\ \/ /\ \E c \in {idleTop} : db' = Rollback(db, c)
        /\ Publish(s)
        /\ UNCHANGED <<runningClients, stopRequests, ret, faults>>
     \/ /\ Reject /\ Catch(s) /\ UNCHANGED <<db, progressStates, emitted, listeners>>
  /\ UNCHANGED <<stopLoop, stopRet, deleteClient, deletes, queueDelete, schedule, loopState, autoRun, delivered, runs, idleTop,
                 switches>>

\* Lines 1322-1335: the final 'idle' upsert returns; the end event is
\* published and the run returns 'stopped' or 'ok'.
SetIdleEnd(s) ==
  /\ run[s].pc = "setIdleEnd"
  /\ \/ /\ \E c \in {idleTop} :
             /\ Runs(db, c, {})
             /\ ~RowLocked(db, c, "settings", run[s].slug, 0)
             /\ db' = UpsertStatus(db, c, run[s].slug, "idle")
        /\ progressStates' = [progressStates EXCEPT ![run[s].slug] =
             snapshotEnd(@, run[s].processed,
                         IF run[s].manualStop THEN "manual_stop" ELSE "none")]
        /\ Emit(run[s].slug,
                EndEvent(run[s].processed,
                         IF run[s].manualStop THEN "manual_stop" ELSE "none"))
        /\ Return(s, IF run[s].manualStop THEN "stopped" ELSE "ok",
                  run[s].processed)
        /\ UNCHANGED faults
     \/ /\ Throw({}) /\ Catch(s) /\ UNCHANGED <<progressStates, emitted, listeners>>
  /\ UNCHANGED <<stopLoop, stopRet, deleteClient, deletes, queueDelete, schedule, loopState, autoRun, delivered, runs, idleTop,
                 switches>>

\* ------------------------------------------------- POST /api/stop-loop
\* Lines 929-938: without an active run the answer is 404; otherwise the
\* flag is set and the 'stopping' update is awaited.
\* A 404 that leaves the stop flag set behind.
StopNotFoundFlagging(t) ==
  /\ t \notin runningClients
  /\ stopRet' = [slug |-> t, status |-> "not_found"]
  /\ stopRequests' = stopRequests \cup {t}
  /\ UNCHANGED <<runningClients, progressStates, emitted, listeners, run,
                 stopLoop, deleteClient, deletes, queueDelete, schedule, loopState, autoRun, db, delivered, ret, faults,
                 runs, idleTop, switches>>

StopNotFound(t) ==
  /\ t \notin runningClients
  /\ stopRet' = [slug |-> t, status |-> "not_found"]
  /\ UNCHANGED <<runningClients, stopRequests, progressStates, emitted,
                 listeners, run, stopLoop, deleteClient, deletes, queueDelete, schedule, loopState, autoRun, db,
                 delivered, ret, faults, runs, idleTop, switches>>

StopRequest(t) ==
  /\ t \in runningClients
  /\ stopLoop[t] < MaxStops
  /\ stopRequests' = stopRequests \cup {t}
  /\ stopLoop' = [stopLoop EXCEPT ![t] = @ + 1]
  /\ UNCHANGED <<runningClients, progressStates, emitted, listeners, run,
                 stopRet, deleteClient, deletes, queueDelete, schedule, loopState, autoRun,
                 db, delivered, ret, faults, runs, idleTop, switches>>

\* Lines 938-940: the 'stopping' update returns (its failure is ignored)
\* and the request is answered ok.
StopWrite(t) ==
  /\ stopLoop[t] > 0
  /\ \/ /\ \E c \in {idleTop} :
             /\ Runs(db, c, {})
             /\ ~RowLocked(db, c, "settings", t, 0)
             /\ db' = UpdateStatus(db, c, t, "stopping")
        /\ UNCHANGED faults
     \/ Throw({})
  /\ stopLoop' = [stopLoop EXCEPT ![t] = @ - 1]
  /\ stopRet' = [slug |-> t, status |-> "ok"]
  /\ UNCHANGED <<runningClients, stopRequests, progressStates, emitted, listeners, run,
                 deleteClient, deletes, queueDelete, schedule, loopState, autoRun, delivered, ret, runs, idleTop,
                 switches>>

\* -------------------------------------------------- GET /api/progress
\* A replay that leaves the buffered items out.
replayNoItems(st) == st.lastStart \o st.lastEnd

\* Lines 1080-1085: what the handler writes from the slug's snapshot:
\* lastStart, the buffered items, lastEnd.
replay(st) == st.lastStart \o st.items \o st.lastEnd

\* Lines 1068-1089: the request is answered with the replay and its
\* onProgress is attached to the slug's emitter, in one synchronous step.
Subscribe(t) ==
  /\ listeners[t].st = "none"
  /\ listeners' = [listeners EXCEPT
       ![t] = [st |-> "open", got |-> replay(progressStates[t])]]
  /\ UNCHANGED <<runningClients, stopRequests, progressStates, emitted, run,
                 stopLoop, stopRet, deleteClient, deletes, queueDelete, schedule, loopState, autoRun, db, delivered,
                 ret, faults, runs, idleTop, switches>>

\* Lines 1093-1097: the request closes; em.off('progress', onProgress).
Close(t) ==
  /\ listeners[t].st = "open"
  /\ listeners' = [listeners EXCEPT ![t].st = "closed"]
  /\ UNCHANGED <<runningClients, stopRequests, progressStates, emitted, run,
                 stopLoop, stopRet, deleteClient, deletes, queueDelete, schedule, loopState, autoRun, db, delivered,
                 ret, faults, runs, idleTop, switches>>

\* ------------------------------------------- DELETE /api/delete-client
\* Lines 897-899: a slug in the registry is answered 409.
DeleteClientBusy(t) ==
  /\ deleteClient[t] = "idle"
  /\ t \in runningClients
  /\ UNCHANGED vars

\* Lines 897-901: the slug is not in the registry; BEGIN is awaited.
DeleteClientStart(t) ==
  /\ deleteClient[t] = "idle"
  /\ deletes < MaxDeletes
  /\ t \notin runningClients
  /\ deleteClient' = [deleteClient EXCEPT ![t] = "begin"]
  /\ deletes' = deletes + 1
  /\ UNCHANGED <<queueDelete, schedule, loopState, autoRun, runningClients, stopRequests, progressStates, emitted, listeners, run, stopLoop, stopRet,
                 db, delivered, ret, faults, runs, idleTop, switches>>

\* What a step of the handler between two of its queries leaves alone.
DeleteClientFrame ==
  UNCHANGED <<runningClients, stopRequests, progressStates, emitted, listeners, run, stopLoop, stopRet,
              deletes, queueDelete, schedule, loopState, autoRun, delivered, ret, runs, idleTop, switches>>

\* A statement of lines 901-905 throws: the catch block awaits ROLLBACK.
DeleteClientCatch(t) ==
  /\ Throw({})
  /\ deleteClient' = [deleteClient EXCEPT ![t] = "rollback"]

\* Line 901: BEGIN returns.
DeleteClientBegin(t) ==
  /\ deleteClient[t] = "begin"
  /\ \/ /\ \E c \in {idleTop} : Runs(db, c, {}) /\ db' = Begin(db, c)
        /\ deleteClient' = [deleteClient EXCEPT ![t] = "dropQueue"]
        /\ UNCHANGED faults
     \/ DeleteClientCatch(t)
  /\ DeleteClientFrame

\* Line 902: DROP TABLE IF EXISTS "<slug>" returns.
DeleteClientDropQueue(t) ==
  /\ deleteClient[t] = "dropQueue"
  /\ \/ /\ \E c \in {idleTop} :
             /\ Runs(db, c, {})
             /\ ~DropWait(db, c, <<t, "queue">>)
             /\ db' = DropTable(db, c, <<t, "queue">>)
        /\ deleteClient' = [deleteClient EXCEPT ![t] = "dropTotais"]
        /\ UNCHANGED faults
     \/ DeleteClientCatch(t)
  /\ DeleteClientFrame

\* Line 903: DROP TABLE IF EXISTS "<slug>_totais" returns.
DeleteClientDropTotais(t) ==
  /\ deleteClient[t] = "dropTotais"
  /\ \/ /\ \E c \in {idleTop} :
             /\ Runs(db, c, {})
             /\ ~DropWait(db, c, <<t, "totais">>)
             /\ db' = DropTable(db, c, <<t, "totais">>)
        /\ deleteClient' = [deleteClient EXCEPT ![t] = "deleteSettings"]
        /\ UNCHANGED faults
     \/ DeleteClientCatch(t)
  /\ DeleteClientFrame

\* Line 904: the DELETE of the settings row returns.
DeleteClientSettings(t) ==
  /\ deleteClient[t] = "deleteSettings"
  /\ \/ /\ \E c \in {idleTop} :
             /\ Runs(db, c, {})
             /\ ~RowLocked(db, c, "settings", t, 0)
             /\ db' = DeleteSettings(db, c, t)
        /\ deleteClient' = [deleteClient EXCEPT ![t] = "commit"]
        /\ UNCHANGED faults
     \/ DeleteClientCatch(t)
  /\ DeleteClientFrame

\* Lines 905-908: COMMIT returns; runningClients.delete(client) and the
\* answer.
DeleteClientCommit(t) ==
  /\ deleteClient[t] = "commit"
  /\ \/ /\ \E c \in {idleTop} : db' = Commit(db, c)
        /\ deleteClient' = [deleteClient EXCEPT ![t] = "idle"]
        /\ runningClients' = runningClients \ {t}
        /\ UNCHANGED faults
     \/ /\ Reject /\ UNCHANGED <<db, runningClients>>
        /\ deleteClient' = [deleteClient EXCEPT ![t] = "rollback"]
  /\ UNCHANGED <<stopRequests, progressStates, emitted, listeners, run, stopLoop, stopRet, deletes, queueDelete, schedule, loopState, autoRun,
                 delivered, ret, runs, idleTop, switches>>

\* Lines 909-913: ROLLBACK returns (its failure is ignored); the answer is
\* 500.
DeleteClientRollback(t) ==
  /\ deleteClient[t] = "rollback"
  /\ \/ /\ \E c \in {idleTop} : db' = Rollback(db, c)
        /\ UNCHANGED faults
     \/ Reject /\ UNCHANGED db
  /\ deleteClient' = [deleteClient EXCEPT ![t] = "idle"]
  /\ DeleteClientFrame

\* --------------------------------------------------- DELETE /api/queue
\* What a step of the handler leaves alone.
QueueDeleteFrame ==
  UNCHANGED <<runningClients, stopRequests, run, stopLoop, stopRet,
              deleteClient, deletes, schedule, loopState, autoRun, delivered,
              ret, runs, idleTop, switches>>

\* Lines 650-659: a request to take `phone` out of the queue of t, with
\* or without markSent; the DELETE is awaited.
QueueDeleteRequest(t) ==
  /\ queueDelete[t].pc = "none"
  /\ \E phone \in Phones, markSent \in BOOLEAN :
       queueDelete' = [queueDelete EXCEPT
         ![t] = [pc |-> "delete", phone |-> phone, markSent |-> markSent]]
  /\ UNCHANGED <<db, faults, progressStates, emitted, listeners>>
  /\ QueueDeleteFrame

\* Lines 675-687: the item event is pushed onto the slug's snapshot and
\* emitted, and the request is answered ok.
QueueDeleteItem(t) ==
  LET q == queueDelete[t]
      evt == [phone |-> q.phone, ok |-> q.markSent,
              status |-> IF q.markSent THEN "success" ELSE "skipped"]
  IN /\ progressStates' = [progressStates EXCEPT ![t] = snapshotPush(@, evt)]
     /\ Emit(t, evt)
     /\ queueDelete' = [queueDelete EXCEPT ![t].pc = "answered"]

\* Lines 688-691: a statement throws; the catch answers 500.
QueueDeleteCatch(t, T) ==
  /\ Throw(T)
  /\ queueDelete' = [queueDelete EXCEPT ![t].pc = "answered"]
  /\ UNCHANGED <<progressStates, emitted, listeners>>

\* Line 659: the DELETE returns; with markSent the UPDATE of the history
\* is awaited.
QueueDeleteDelete(t) ==
  LET q == queueDelete[t]
      T == {<<t, "queue">>}
  IN
  /\ q.pc = "delete"
  /\ \/ /\ \E c \in {idleTop} :
             /\ Runs(db, c, T)
             /\ ~RowLocked(db, c, "queue", t, q.phone)
             /\ db' = Touch(DeleteFromQueue(db, c, t, q.phone), c, T)
        /\ UNCHANGED faults
        /\ IF q.markSent
           THEN /\ queueDelete' = [queueDelete EXCEPT ![t].pc = "update"]
                /\ UNCHANGED <<progressStates, emitted, listeners>>
           ELSE QueueDeleteItem(t)
     \/ QueueDeleteCatch(t, T)
  /\ QueueDeleteFrame

\* Lines 663-666: UPDATE "<slug>_totais" SET mensagem_enviada = true WHERE
\* phone = $1 returns; it marks the contact when the history holds a row
\* of the phone.  The SELECT of the name is awaited.
QueueDeleteUpdate(t) ==
  LET q == queueDelete[t]
      T == {<<t, "totais">>}
  IN
  /\ q.pc = "update"
  /\ \/ /\ \E c \in {idleTop}, known \in BOOLEAN :
             /\ Runs(db, c, T)
             /\ known => ~RowLocked(db, c, "totais", t, q.phone)
             /\ db' = Touch(IF known THEN UpsertSent(db, c, t, q.phone)
                            ELSE db, c, T)
        /\ queueDelete' = [queueDelete EXCEPT ![t].pc = "select"]
        /\ UNCHANGED <<faults, progressStates, emitted, listeners>>
     \/ QueueDeleteCatch(t, T)
  /\ QueueDeleteFrame

\* Lines 667-687: the SELECT of the name returns.
QueueDeleteSelect(t) ==
  LET T == {<<t, "totais">>} IN
  /\ queueDelete[t].pc = "select"
  /\ \/ /\ \E c \in {idleTop} : Runs(db, c, T) /\ db' = Touch(db, c, T)
        /\ UNCHANGED faults
        /\ QueueDeleteItem(t)
     \/ QueueDeleteCatch(t, T)
  /\ QueueDeleteFrame

\* ------------------------------------------------------------ the pool
\* pool.query runs its statement on the idle client the pool hands out,
\* the one released last.  Queries of concurrent requests (the front end
\* polls GET /api/loop-state and /api/quota while a loop runs) check
\* clients out and release them in another order, after which the next
\* statement of a handler runs on another client than its previous one.
PoolShuffle ==
  /\ switches < MaxSwitches
  /\ switches' = switches + 1
  /\ idleTop' \in Conns \ {idleTop}
  /\ UNCHANGED <<runningClients, stopRequests, progressStates, emitted, listeners, run, stopLoop, stopRet,
                 deleteClient, deletes, queueDelete, schedule, loopState, autoRun, db, delivered, ret, faults, runs>>

\* ------------------------------------------------- GET /api/loop-state
\* Lines 345-357: a request for the slug t; the settings row is awaited.
LoopStateRequest(t) ==
  /\ loopState[t].pc = "none"
  /\ loopState' = [loopState EXCEPT ![t].pc = "select"]
  /\ UNCHANGED <<db, faults>>
  /\ UNCHANGED <<runningClients, stopRequests, progressStates, emitted,
                 listeners, run, stopLoop, stopRet, deleteClient, deletes,
                 queueDelete, schedule, autoRun, delivered, ret, idleTop, switches, runs>>

\* Lines 366-385 up to the next await: with the slug not in the registry
\* and a persisted 'running', the status to report is 'idle' and the
\* normalising UPDATE is awaited; otherwise the count of today's sends.
selfHeal(l, loop_status, isActuallyRunning) ==
  IF ~isActuallyRunning /\ loop_status = "running"
  THEN [l EXCEPT !.pc = "heal", !.loop_status = "idle",
                 !.isActuallyRunning = isActuallyRunning]
  ELSE [l EXCEPT !.pc = "count", !.loop_status = loop_status,
                 !.isActuallyRunning = isActuallyRunning]

\* Lines 352-366: the settings row returns (no row, or a failed query,
\* leaves loop_status 'idle'); the registry is read.
LoopStateSelect(t) ==
  /\ loopState[t].pc = "select"
  /\ \/ /\ \E c \in {idleTop} :
             /\ Runs(db, c, {})
             /\ loopState' = [loopState EXCEPT ![t] =
                  selfHeal(@, IF StatusView(db, c, t) = "none" THEN "idle"
                              ELSE StatusView(db, c, t),
                           t \in runningClients)]
        /\ UNCHANGED <<db, faults>>
     \/ /\ Throw({})
        /\ loopState' = [loopState EXCEPT ![t] =
             selfHeal(@, "idle", t \in runningClients)]
  /\ UNCHANGED <<runningClients, stopRequests, progressStates, emitted,
                 listeners, run, stopLoop, stopRet, deleteClient, deletes,
                 queueDelete, schedule, autoRun, delivered, ret, idleTop, switches, runs>>

\* Lines 371-385: the normalising UPDATE returns or throws (ignored); the
\* count of today's sends is awaited.
LoopStateHeal(t) ==
  /\ loopState[t].pc = "heal"
  /\ \/ /\ \E c \in {idleTop} :
             /\ Runs(db, c, {})
             /\ ~RowLocked(db, c, "settings", t, 0)
             /\ db' = UpdateStatus(db, c, t, "idle")
        /\ UNCHANGED faults
     \/ Throw({})
  /\ loopState' = [loopState EXCEPT ![t].pc = "count"]
  /\ UNCHANGED <<runningClients, stopRequests, progressStates, emitted,
                 listeners, run, stopLoop, stopRet, deleteClient, deletes,
                 queueDelete, schedule, autoRun, delivered, ret, idleTop, switches, runs>>

\* Lines 377-399: the count returns or throws (ignored); res.json sends
\* loop_status and actually_running.
LoopStateCount(t) ==
  LET T == {<<t, "totais">>} IN
  /\ loopState[t].pc = "count"
  /\ \/ /\ \E c \in {idleTop} : Runs(db, c, T) /\ db' = Touch(db, c, T)
        /\ UNCHANGED faults
     \/ Throw(T)
  /\ loopState' = [loopState EXCEPT ![t].pc = "answered"]
  /\ UNCHANGED <<runningClients, stopRequests, progressStates, emitted,
                 listeners, run, stopLoop, stopRet, deleteClient, deletes,
                 queueDelete, schedule, autoRun, delivered, ret, idleTop, switches, runs>>

\* ------------------------------------------------ scheduleDailyAutoRun
\* The orders in which a query may return the slugs S.
RowsOf(S) ==
  {rows \in [1..Cardinality(S) -> S] :
     \A j, k \in 1..Cardinality(S) : j # k => rows[j] # rows[k]}

\* if (queueCount > 0)
ShouldStart(queueCount) == queueCount > 0

\* The finally block: scheduleDailyAutoRun() sets the timer of the next
\* day.
Rearm(a) == [a EXCEPT !.pc = "armed", !.rows = <<>>]

\* The for loop from its head, with a.rows left: a slug in the registry
\* is skipped, tableExists is awaited for the first other one, and after
\* the last row the finally block runs.
RECURSIVE ForEach(_, _)
ForEach(a, running) ==
  IF a.rows = <<>> THEN Rearm(a)
  ELSE IF Head(a.rows) \in running
       THEN ForEach([a EXCEPT !.rows = Tail(@)], running)
       ELSE [a EXCEPT !.pc = "exists"]

\* Line 1353: the timer fires; the tenants with auto_run are awaited.
TimerFire ==
  /\ autoRun.pc = "armed"
  /\ autoRun.firings < MaxFirings
  /\ autoRun' = [autoRun EXCEPT !.pc = "lookup", !.firings = @ + 1,
                                !.auto = {}, !.started = {}]
  /\ UNCHANGED <<runningClients, run, runs, ret, db, faults>>
  /\ UNCHANGED <<stopRequests, progressStates, emitted, listeners, stopLoop,
                 stopRet, deleteClient, deletes, queueDelete, schedule, loopState,
                 delivered, idleTop, switches>>

\* Lines 1355-1359: the lookup returns the slugs whose settings row has
\* auto_run = true, or throws into the outer catch.
TimerLookup ==
  /\ autoRun.pc = "lookup"
  /\ \/ /\ \E c \in {idleTop} :
             /\ Runs(db, c, {})
             /\ \E auto \in SUBSET {t \in Tenants :
                                      StatusView(db, c, t) # "none"} :
                  \E rows \in RowsOf(auto) :
                    autoRun' = ForEach([autoRun EXCEPT !.auto = auto,
                                                       !.rows = rows],
                                       runningClients)
        /\ UNCHANGED <<db, faults>>
     \/ Throw({}) /\ autoRun' = Rearm(autoRun)
  /\ UNCHANGED <<runningClients, run, runs, ret>>
  /\ UNCHANGED <<stopRequests, progressStates, emitted, listeners, stopLoop,
                 stopRet, deleteClient, deletes, queueDelete, schedule, loopState,
                 delivered, idleTop, switches>>

\* Lines 1359-1361: tableExists answers, or throws into the catch of the
\* tenant.
TimerExists ==
  LET slug == Head(autoRun.rows)
      next == [autoRun EXCEPT !.rows = Tail(@)]
  IN
  /\ autoRun.pc = "exists"
  /\ \/ /\ \E c \in {idleTop} :
             /\ Runs(db, c, {})
             /\ autoRun' = IF Visible(db, c, <<slug, "queue">>)
                            THEN [autoRun EXCEPT !.pc = "count"]
                            ELSE ForEach(next, runningClients)
        /\ UNCHANGED <<db, faults>>
     \/ Throw({}) /\ autoRun' = ForEach(next, runningClients)
  /\ UNCHANGED <<runningClients, run, runs, ret>>
  /\ UNCHANGED <<stopRequests, progressStates, emitted, listeners, stopLoop,
                 stopRet, deleteClient, deletes, queueDelete, schedule, loopState,
                 delivered, idleTop, switches>>

\* Lines 1361-1368: the COUNT of the queue returns, or throws into the
\* catch of the tenant; with rows queued runLoopForClient(slug) is called
\* and runs up to its first await.
TimerCount ==
  LET slug == Head(autoRun.rows)
      T == {<<slug, "queue">>}
      next == [autoRun EXCEPT !.rows = Tail(@)]
  IN
  /\ autoRun.pc = "count"
  /\ \/ /\ \E c \in {idleTop} :
             /\ Runs(db, c, T)
             /\ db' = Touch(db, c, T)
             /\ IF ~ShouldStart(Cardinality(QueueView(db, c, slug)))
                THEN /\ autoRun' = ForEach(next, runningClients)
                     /\ UNCHANGED <<runningClients, run, runs, ret>>
                ELSE IF slug \in runningClients
                THEN /\ autoRun' = ForEach(next, runningClients)
                     /\ ret' = [slug |-> slug, status |-> "already_running",
                                processed |-> 0]
                     /\ UNCHANGED <<runningClients, run, runs>>
                ELSE /\ runs < MaxRuns
                     /\ Acquire(slug, MaxBatch)
                     /\ runs' = runs + 1
                     /\ autoRun' = ForEach([next EXCEPT !.started =
                                              @ \cup {slug}],
                                           runningClients \cup {slug})
                     /\ UNCHANGED ret
        /\ UNCHANGED faults
     \/ /\ Throw(T)
        /\ autoRun' = ForEach(next, runningClients)
        /\ UNCHANGED <<runningClients, run, runs, ret>>
  /\ UNCHANGED <<stopRequests, progressStates, emitted, listeners, stopLoop,
                 stopRet, deleteClient, deletes, queueDelete, schedule, loopState,
                 delivered, idleTop, switches>>

\* ------------------------------------- generateScheduleDelays, stepwise
\* The call generateScheduleDelays(count, startStr, endStr) made at second
\* nowSec of the day, before its first statement.
Called(count, nowSec, startStr, endStr) ==
  [NoSchedule EXCEPT !.pc = "called", !.count = count, !.nowSec = nowSec,
                     !.startSec = hmsToSeconds(startStr),
                     !.endSec = hmsToSeconds(endStr)]

EffectiveStart(c) == Max(c.nowSec, c.startSec)
Span(c) == c.endSec - EffectiveStart(c)

\* Lines 35-42: a closed window returns []; otherwise the loop is entered.
ScheduleEnter ==
  /\ schedule.pc = "called"
  /\ schedule' = IF schedule.endSec <= EffectiveStart(schedule)
                  THEN [schedule EXCEPT !.pc = "done"]
                  ELSE [schedule EXCEPT !.pc = "sampling"]
  /\ UNCHANGED <<runningClients, stopRequests, progressStates, emitted,
                 listeners, run, stopLoop, stopRet, deleteClient, deletes,
                 queueDelete, loopState, autoRun, db, delivered, ret, idleTop,
                 switches, faults, runs>>

\* Lines 43-45: one turn of `while (offsets.size < msgCount)`.
ScheduleDraw ==
  /\ schedule.pc = "sampling"
  /\ Cardinality(schedule.offsets) < msgCount(schedule.count, Span(schedule))
  /\ \E off \in 0..Span(schedule) :
       schedule' = [schedule EXCEPT !.offsets = @ \cup {off}]
  /\ UNCHANGED <<runningClients, stopRequests, progressStates, emitted,
                 listeners, run, stopLoop, stopRet, deleteClient, deletes,
                 queueDelete, loopState, autoRun, db, delivered, ret, idleTop,
                 switches, faults, runs>>

\* Lines 46-53: the loop is left; the offsets are sorted and turned into
\* delays.
ScheduleReturn ==
  /\ schedule.pc = "sampling"
  /\ ~(Cardinality(schedule.offsets) < msgCount(schedule.count, Span(schedule)))
  /\ schedule' = [schedule EXCEPT
       !.pc = "done",
       !.delays = Delays(schedule.nowSec, EffectiveStart(schedule),
                         schedule.offsets)]
  /\ UNCHANGED <<runningClients, stopRequests, progressStates, emitted,
                 listeners, run, stopLoop, stopRet, deleteClient, deletes,
                 queueDelete, loopState, autoRun, db, delivered, ret, idleTop,
                 switches, faults, runs>>

\* ---------------------------------------------------------------- system
\* The inputs of a run: batch sizes, ia_auto values, seconds of the day.
BatchSizes == 1..MaxBatch
IaFlags == BOOLEAN
DaySeconds == 0..WindowEndSec

\* runLoopForClient and stop-loop for the inputs given.
Scheduler(sizes, flags, times) ==
  \/ \E t \in Served :
       \/ AlreadyRunning(t) \/ Start(t, sizes)
       \/ StopNotFound(t) \/ StopRequest(t) \/ StopWrite(t)
  \/ \E s \in RunIds :
       \/ SetRunning(s) \/ TableExists(s) \/ SetIdleMissing(s)
       \/ CountQueue(s) \/ GetSettings(s, flags) \/ CountSent(s, times)
       \/ SetIdleQuota(s) \/ SleepTick(s) \/ Select(s) \/ SelectFallback(s)
       \/ Dispatch(s) \/ BeginTx(s) \/ DeleteTx(s) \/ InsertTx(s)
       \/ CommitTx(s) \/ RollbackTx(s) \/ SetIdleEnd(s)

\* The scheduler over a store whose calls may reject and a pool whose
\* clients other requests reorder.
Next == PoolShuffle \/ Scheduler(BatchSizes, IaFlags, DaySeconds)

Spec == Init /\ [][Next]_vars

\* The scheduler next to a delete-client request, for a tenant that has
\* its tables, over a store that answers every call.
InitAdmin ==
  \E sentEarlier \in SUBSET {Earlier} :
    InitWith(Served, sentEarlier, 0, MaxSwitches)
    /\ schedule = NoSchedule

DeleteClient ==
  \E t \in Served :
    \/ DeleteClientBusy(t) \/ DeleteClientStart(t) \/ DeleteClientBegin(t)
    \/ DeleteClientDropQueue(t) \/ DeleteClientDropTotais(t)
    \/ DeleteClientSettings(t) \/ DeleteClientCommit(t)
    \/ DeleteClientRollback(t)

NextAdmin ==
  DeleteClient \/ Scheduler({MaxBatch}, IaFlags, {WindowEndSec - 1})

SpecAdmin == InitAdmin /\ [][NextAdmin]_vars

\* The scheduler with a front end listening on /api/progress, over a
\* store whose calls may reject.
InitProgress ==
  \E created \in SUBSET Served, sentEarlier \in SUBSET {Earlier} :
    InitWith(created, sentEarlier, MaxFaults, MaxSwitches) /\ schedule = NoSchedule

Progress == \E t \in Served : Subscribe(t) \/ Close(t)

NextProgress ==
  Progress \/ Scheduler({MaxBatch}, IaFlags, {WindowEndSec - 1})

SpecProgress == InitProgress /\ [][NextProgress]_vars

\* One step of the run s: a call it awaits returns or throws, or a timer
\* of its sleep expires.
RunStep(s, flags, times) ==
  \/ SetRunning(s) \/ TableExists(s) \/ SetIdleMissing(s)
  \/ CountQueue(s) \/ GetSettings(s, flags) \/ CountSent(s, times)
  \/ SetIdleQuota(s) \/ SleepTick(s) \/ Select(s) \/ SelectFallback(s)
  \/ Dispatch(s) \/ BeginTx(s) \/ DeleteTx(s) \/ InsertTx(s)
  \/ CommitTx(s) \/ RollbackTx(s) \/ SetIdleEnd(s)

\* The scheduler over a store whose calls may reject, every call a run
\* awaits returning or throwing and every timer expiring in the end: the
\* steps of a run are taken fairly.
PlanSeconds == {WindowStartSec}

InitReturning ==
  \E created \in SUBSET Served, sentEarlier \in SUBSET {Earlier} :
    InitWith(created, sentEarlier, MaxFaults, MaxSwitches) /\ schedule = NoSchedule

NextReturning == Scheduler(BatchSizes, IaFlags, PlanSeconds)

SpecReturning ==
  /\ InitReturning /\ [][NextReturning]_vars
  /\ \A s \in RunIds : WF_vars(RunStep(s, IaFlags, PlanSeconds))

\* The scheduler next to a front end asking for the loop state, over a
\* store whose calls may reject and whose loop_status may have been left
\* 'running' by a process that died.
InitStatus ==
  \E created \in SUBSET Served, sentEarlier \in SUBSET {Earlier},
     persisted \in {"idle", "running"} :
    /\ InitStored(created, sentEarlier, MaxFaults, MaxSwitches, persisted)
    /\ schedule = NoSchedule

LoopState ==
  \E t \in Served :
    \/ LoopStateRequest(t) \/ LoopStateSelect(t) \/ LoopStateHeal(t)
    \/ LoopStateCount(t)

NextStatus ==
  LoopState \/ Scheduler({MaxBatch}, IaFlags, {WindowEndSec - 1})

SpecStatus == InitStatus /\ [][NextStatus]_vars

\* The daily timer next to POST /api/loop, over a store whose calls may
\* reject.  The calls the timer's callback awaits return or throw.  A run
\* id is kept for every firing that may still start a run.
InitTimer ==
  \E created \in SUBSET Served, sentEarlier \in SUBSET {Earlier} :
    InitWith(created, sentEarlier, TimerFaults, MaxSwitches) /\ schedule = NoSchedule

Pending ==
  (MaxFirings - autoRun.firings) + (IF autoRun.pc = "armed" THEN 0 ELSE 1)

ApiLoop ==
  \E t \in Served :
    \/ AlreadyRunning(t)
    \/ runs + Pending < MaxRuns /\ Start(t, {MaxBatch})

Timer == TimerFire \/ TimerLookup \/ TimerExists \/ TimerCount

NextTimer ==
  \/ Timer
  \/ ApiLoop
  \/ \E s \in RunIds : RunStep(s, IaFlags, PlanSeconds)

SpecTimer ==
  /\ InitTimer /\ [][NextTimer]_vars
  /\ WF_vars(TimerLookup \/ TimerExists \/ TimerCount)

\* generateScheduleDelays alone, for the counts, call times and windows
\* below.  Math.random() returns every value of its range again and again,
\* so a turn of the sampling loop that adds a new offset is taken fairly.
Counts == -1..MaxCount
Clock == 0..MaxSec
Times == {<<0, 0, sec>> : sec \in 0..MaxSec}

InitSchedule ==
  /\ InitWith({}, {}, 0, MaxSwitches)
  /\ \E count \in Counts, nowSec \in Clock, startStr \in Times,
        endStr \in Times :
       schedule = Called(count, nowSec, startStr, endStr)

NextSchedule == ScheduleEnter \/ ScheduleDraw \/ ScheduleReturn

SpecSchedule ==
  InitSchedule /\ [][NextSchedule]_vars /\ WF_vars(NextSchedule)

\* The scheduler next to an operator who takes a contact out of the queue
\* by hand, over a store whose calls may reject.
InitManual ==
  \E created \in SUBSET Served, sentEarlier \in SUBSET {Earlier} :
    InitWith(created, sentEarlier, MaxFaults, MaxSwitches)
    /\ schedule = NoSchedule

QueueDelete ==
  \E t \in Served :
    \/ QueueDeleteRequest(t) \/ QueueDeleteDelete(t) \/ QueueDeleteUpdate(t)
    \/ QueueDeleteSelect(t)

NextManual ==
  \/ QueueDelete
  \/ \E t \in Served : Start(t, {MaxBatch})
  \/ \E s \in RunIds : RunStep(s, IaFlags, {WindowEndSec - 1})

SpecManual == InitManual /\ [][NextManual]_vars

\* Two tenants served by the one process: runs of both, stop requests
\* and subscriptions of one, over the shared pool and a store that answers
\* every call (so no fallback query, no ROLLBACK and no missing table).
InitTenants ==
  InitWith(Tenants, {}, 0, MaxSwitches) /\ schedule = NoSchedule

NextTenants ==
  \/ \E t \in Tenants : Start(t, {MaxBatch})
  \/ \E t \in Served : StopRequest(t) \/ StopWrite(t) \/ Subscribe(t)
  \/ \E s \in RunIds :
       \/ SetRunning(s) \/ TableExists(s) \/ CountQueue(s)
       \/ GetSettings(s, {TRUE}) \/ CountSent(s, {WindowEndSec - 1})
       \/ SleepTick(s) \/ Select(s) \/ Dispatch(s) \/ BeginTx(s)
       \/ DeleteTx(s) \/ InsertTx(s) \/ CommitTx(s) \/ SetIdleEnd(s)

SpecTenants == InitTenants /\ [][NextTenants]_vars

\* The snapshot functions of progress.js alone, called for a slug as a
\* run with many contacts calls them: snapshotStart, then snapshotPush for
\* one contact after the other, then snapshotEnd.
NextPhone(st) ==
  IF st.items = <<>> THEN 1 ELSE st.items[Len(st.items)].phone + 1

\* snapshotStart(slug, total)
BufferStart(t) ==
  /\ progressStates' = [progressStates EXCEPT ![t] = snapshotStart(0)]
  /\ UNCHANGED <<runningClients, stopRequests, emitted, listeners, run,
                 stopLoop, stopRet, deleteClient, deletes, queueDelete, schedule, loopState,
                 autoRun, db, delivered, ret, idleTop, switches, faults, runs>>

\* snapshotPush(slug, evt) with evt the item event of the next contact.
BufferPush(t) ==
  /\ NextPhone(progressStates[t]) <= MaxPushes
  /\ LET st == progressStates[t]
         evt == ItemEvent([IdleRun EXCEPT !.phone = NextPhone(st)])
     IN progressStates' = [progressStates EXCEPT ![t] = snapshotPush(st, evt)]
  /\ UNCHANGED <<runningClients, stopRequests, emitted, listeners, run,
                 stopLoop, stopRet, deleteClient, deletes, queueDelete, schedule, loopState,
                 autoRun, db, delivered, ret, idleTop, switches, faults, runs>>

\* snapshotEnd(slug, processed)
BufferEnd(t) ==
  /\ progressStates[t].lastEnd = <<>>
  /\ progressStates' = [progressStates EXCEPT ![t] = snapshotEnd(@, 0, "none")]
  /\ UNCHANGED <<runningClients, stopRequests, emitted, listeners, run,
                 stopLoop, stopRet, deleteClient, deletes, queueDelete, schedule, loopState,
                 autoRun, db, delivered, ret, idleTop, switches, faults, runs>>

InitBuffer == InitWith({}, {}, 0, MaxSwitches) /\ schedule = NoSchedule

NextBuffer ==
  \E t \in Served : BufferStart(t) \/ BufferPush(t) \/ BufferEnd(t)

SpecBuffer == InitBuffer /\ [][NextBuffer]_vars

\* ================================================================ claims
ActiveRuns(t) == {s \in RunIds : run[s].pc # "idle" /\ run[s].slug = t}
Items(t) == progressStates[t].items
Returns(s) == run[s].pc # "idle" /\ run'[s].pc = "idle"

\* C1 -- Single-flight: at most one run of a tenant is active in every
\* reachable state, and a call made while one is active answers
\* already_running with processed 0 and changes nothing.
C1_SingleFlight ==
  /\ [](\A t \in Tenants : Cardinality(ActiveRuns(t)) <= 1)
  /\ [][\A t \in Tenants :
          (ret' # ret /\ ret'.slug = t /\ ret'.status = "already_running")
            => UNCHANGED <<runningClients, stopRequests, progressStates,
                           run, stopLoop, db, delivered>>]_vars

\* C2 -- Daily quota: the contacts of a tenant marked sent today never
\* exceed its dailyLimit.
C2_DailyQuota ==
  \A t \in Tenants : Cardinality(db.totais[t]) <= DailyLimit

\* C3 -- At most one attempt per phone per run: the item events of a run
\* name pairwise different phones, and the contact being dispatched or
\* committed has no earlier item event in the run.
C3_OneAttemptPerPhone ==
  /\ \A t \in Tenants : \A j, k \in DOMAIN Items(t) :
       j # k => Items(t)[j].phone # Items(t)[k].phone
  /\ \A s \in RunIds :
       run[s].pc \in {"dispatch", "begin", "delete", "insert", "commit",
                      "rollback"}
         => \A k \in DOMAIN Items(run[s].slug) :
              Items(run[s].slug)[k].phone # run[s].phone

\* A run has published two item events and the contact of the first is
\* still queued (its transaction was rolled back), so it was there to be
\* selected again.
C3_Witness ==
  \E t \in Tenants :
    /\ Len(Items(t)) = 2
    /\ Items(t)[1].phone \in db.queue[t]
    /\ Items(t)[1].phone \notin db.totais[t]

\* C4 -- Queue/history atomicity on success: once a run has ended, every
\* contact it reported with status 'success' is out of the queue and
\* marked sent, and only contacts the dispatcher succeeded for are marked.
C4_SuccessCommitted ==
  \A t \in Tenants :
    /\ ActiveRuns(t) = {} =>
         \A k \in DOMAIN Items(t) :
           Items(t)[k].status = "success" =>
             /\ Items(t)[k].phone \notin db.queue[t]
             /\ Items(t)[k].phone \in db.totais[t]
    /\ db.totais[t] \cap Phones \subseteq delivered[t]

\* C5 -- Failed or skipped contacts are dropped: a contact reported with
\* status 'error' or 'skipped' is out of the queue and not marked sent.
C5_FailedDropped ==
  \A t \in Tenants : \A k \in DOMAIN Items(t) :
    Items(t)[k].status \in {"error", "skipped"} =>
      /\ Items(t)[k].phone \notin db.queue[t]
      /\ Items(t)[k].phone \notin db.totais[t]

\* C6 -- The queue delete and the history upsert of a contact are one
\* atomic transaction: the contact the dispatcher has just succeeded for
\* is never out of the queue without being marked sent, nor marked sent
\* while still queued.
C6_AtomicPair ==
  \A s \in RunIds :
    (run[s].pc # "idle" /\ run[s].shouldMark) =>
      LET t == run[s].slug
          p == run[s].phone
      IN (p \in db.queue[t]) # (p \in db.totais[t])

\* C7 -- A dispatch in flight when stop is requested is committed: when
\* the run leaves its loop on the return of the dispatcher, the contact is
\* already out of the queue and, if the dispatcher succeeded, marked sent.
C7_InFlightCommitted ==
  [][\A s \in RunIds :
       (run[s].pc = "dispatch" /\ run'[s].pc = "setIdleEnd") =>
         /\ run[s].phone \notin db'.queue[run[s].slug]
         /\ run'[s].shouldMark => run[s].phone \in db'.totais[run[s].slug]]_vars

\* The end event of the last run of t says that it was stopped by hand.
EndedManualStop(st) ==
  Len(st.lastEnd) = 1 /\ st.lastEnd[1].reason = "manual_stop"

\* A stop flag found set by a poll of sleepAbortable, or by the check
\* after it, ends the loop at once.
C8_SleepAborts ==
  \A s \in RunIds :
    (run[s].pc = "sleep" /\ run[s].slug \in stopRequests
       /\ run'[s] # run[s])
      => run'[s].pc = "setIdleEnd" /\ run'[s].manualStop

\* A run that has left its loop on a stop awaits its final status write
\* only: it selects and dispatches nothing.
C8_NoFurtherContact ==
  \A s \in RunIds :
    (run[s].pc # "idle" /\ run[s].manualStop) => run[s].pc = "setIdleEnd"

\* C8 as stated -- Cancellation responsiveness: a stop accepted during
\* abortableSleep is seen at the next poll, and the run then ends with
\* status stopped and an end event with reason manual_stop without
\* selecting or dispatching any further contact.
C8_StopDuringSleep ==
  /\ [][C8_SleepAborts]_vars
  /\ [](C8_NoFurtherContact)
  /\ [][\A s \in RunIds :
          (Returns(s) /\ run[s].manualStop) =>
            /\ ret'.status = "stopped"
            /\ EndedManualStop(progressStates'[run[s].slug])]_vars

\* C8 -- Cancellation responsiveness: a stop accepted during
\* abortableSleep is seen at the next poll, and the run then ends without
\* selecting or dispatching any further contact, with status stopped and
\* an end event with reason manual_stop or, when its final status write
\* fails, with status error.
C8_StopDuringSleepOrError ==
  /\ [][C8_SleepAborts]_vars
  /\ [](C8_NoFurtherContact)
  /\ [][\A s \in RunIds :
          (Returns(s) /\ run[s].manualStop) =>
            \/ /\ ret'.status = "stopped"
               /\ EndedManualStop(progressStates'[run[s].slug])
            \/ ret'.status = "error"]_vars

\* A stop was accepted during the first sleep of a run: the poll after the
\* first step, with the delay not yet elapsed, has set manualStop and left
\* the loop before any contact was selected.
C8_Witness ==
  \E s \in RunIds :
    /\ run[s].pc = "setIdleEnd"
    /\ run[s].manualStop
    /\ run[s].i = 0
    /\ run[s].elapsed = SleepStep
    /\ run[s].elapsed < run[s].scheduleDelays[1] * SecondMs
    /\ run[s].attemptedPhones = {}
    /\ stopLoop[run[s].slug] > 0

\* C9 -- No stale stop flag: a set stop flag belongs to an active run, the
\* end of a run clears it, and no run begins under a flag set before it
\* started.
C9_NoStaleStop ==
  /\ [](\A t \in Tenants : t \in stopRequests => ActiveRuns(t) # {})
  /\ [][\A s \in RunIds :
          /\ Returns(s) => run[s].slug \notin stopRequests'
          /\ (run[s].pc = "idle" /\ run'[s].pc # "idle")
               => run'[s].slug \notin stopRequests]_vars

\* C10 -- Lock release on every exit: when a run returns, its slug leaves
\* the registry, and already_running is answered only while a run is
\* active.
C10_LockReleased ==
  /\ [][\A s \in RunIds : Returns(s) => run[s].slug \notin runningClients']_vars
  /\ [][\A t \in Tenants :
          (ret' # ret /\ ret'.slug = t /\ ret'.status = "already_running")
            => ActiveRuns(t) # {}]_vars
  /\ [](\A t \in Tenants : t \in runningClients => ActiveRuns(t) # {})

\* A run has ended in the outer catch, a second run has acquired the lock
\* after it and has ended too, and the registry is empty.
C10_Witness ==
  /\ runs = 2
  /\ faults = MaxFaults - 1
  /\ ret.status = "ok"
  /\ \A s \in RunIds : run[s].pc = "idle"
  /\ runningClients = {}

\* C11 -- requestStop for a tenant with no active run is answered
\* not_found and changes nothing: a request answered not_found leaves the
\* stop flags, the store and every registry as they were, and a stop is
\* accepted (flag set, 'stopping' write issued) only while a run of the
\* tenant is active.
C11_StopNotFound ==
  /\ [][(stopRet' # stopRet /\ stopRet'.status = "not_found")
         => UNCHANGED <<runningClients, stopRequests, progressStates, emitted,
                        listeners, run, stopLoop, db, delivered, ret>>]_vars
  /\ [][\A t \in Tenants :
          (ActiveRuns(t) = {})
            => /\ t \in stopRequests' => t \in stopRequests
               /\ stopLoop'[t] <= stopLoop[t]]_vars

\* A run has come and gone and a stop request for its tenant was answered
\* not_found afterwards: no flag is set and the status is the run's 'idle'.
C11_Witness ==
  \E t \in Tenants :
    /\ stopRet = [slug |-> t, status |-> "not_found"]
    /\ ret = [slug |-> t, status |-> "ok", processed |-> 1]
    /\ ActiveRuns(t) = {}
    /\ stopRequests = {}
    /\ db.settings[t] = "idle"

\* C12 -- Quota exhaustion: a run that consults the quota while the
\* history holds dailyLimit or more records sent today (and no stop is
\* requested) has published a start and then an end event with reason
\* daily_quota and nothing else, and returns quota_reached with processed 0
\* and loopStatus idle, the queue, the history and the contacts the
\* dispatcher was invoked for being what they were.
C12_QuotaExhausted ==
  [][\A s \in RunIds :
       LET t == run[s].slug IN
       /\ (/\ run[s].pc = "countSent" /\ run'[s].pc # "countSent"
           /\ Cardinality(db.totais[t]) >= DailyLimit
           /\ t \notin stopRequests)
            => /\ run'[s].pc = "setIdleQuota"
               /\ Len(emitted'[t]) = 2
               /\ IsStart(emitted'[t][1])
               /\ emitted'[t][2] = EndEvent(0, "daily_quota")
       /\ (run[s].pc = "setIdleQuota" /\ Returns(s))
            => /\ ret' = [slug |-> t, status |-> "quota_reached",
                          processed |-> 0]
               /\ db'.settings[t] = "idle"
               /\ db'.queue = db.queue /\ db'.totais = db.totais
               /\ delivered' = delivered]_vars

\* The last n elements of a sequence.
LastN(seq, n) == SubSeq(seq, Len(seq) - n + 1, Len(seq))

\* A run of t that published events has ended and none has begun since.
RunEnded(t) == ActiveRuns(t) = {} /\ emitted[t] # <<>>

\* What a response that attaches now is owed from the events published
\* since the last start: the start, the last min(N, 200) of the N items,
\* and the end.
Owed(t) ==
  LET items == SelectSeq(emitted[t], IsItem) IN
  SelectSeq(emitted[t], IsStart)
    \o LastN(items, Min(Len(items), SnapshotCap))
    \o SelectSeq(emitted[t], IsEnd)

\* C13 -- Replay correctness: a subscriber that attaches after N item
\* events of the current run is first written the start event, then the
\* last min(N, 200) item events in publication order, then the end event,
\* which is there if the run has ended, and afterwards every event
\* published while it listens.
C13_Replay ==
  /\ [][\A t \in Tenants :
          (listeners[t].st = "none" /\ listeners'[t].st = "open")
            => LET got == listeners'[t].got IN
               /\ got = Owed(t)
               /\ RunEnded(t) => (got # <<>> /\ IsEnd(got[Len(got)]))]_vars
  /\ [][\A t \in Tenants :
          (listeners[t].st = "open" /\ listeners'[t].st = "open"
             /\ emitted'[t] # emitted[t])
            => listeners'[t].got =
                 Append(listeners[t].got,
                        emitted'[t][Len(emitted'[t])])]_vars

\* C13 without its clause on ended runs: the replay is the start, the
\* buffered items and the end event if one was published, and live events
\* follow.
C13_ReplayOfSnapshot ==
  /\ [][\A t \in Tenants :
          (listeners[t].st = "none" /\ listeners'[t].st = "open")
            => listeners'[t].got = Owed(t)]_vars
  /\ [][\A t \in Tenants :
          (listeners[t].st = "open" /\ listeners'[t].st = "open"
             /\ emitted'[t] # emitted[t])
            => listeners'[t].got =
                 Append(listeners[t].got,
                        emitted'[t][Len(emitted'[t])])]_vars

\* The start, item and end events of a sequence of events.
NotSchedule(e) == ~IsSchedule(e)
Core(seq) == SelectSeq(seq, NotSchedule)

\* The events of a sequence from its last start event on.
SinceStart(seq) ==
  LET S == {i \in DOMAIN seq : IsStart(seq[i])} IN
  IF S = {} THEN seq
  ELSE SubSeq(seq, CHOOSE i \in S : \A j \in S : j <= i, Len(seq))

\* C14 -- Replay-then-live is atomic: what a listening response has been
\* written of the latest run is exactly the start, item and end events
\* that run has published, each once and in order, whenever the response
\* attached: none is missed between replay and live and none written by
\* both.
C14_ReplayThenLive ==
  \A t \in Tenants :
    listeners[t].st = "open"
      => SinceStart(Core(listeners[t].got)) = Core(emitted[t])

\* A response attached in the middle of a run, after the schedule event
\* was published: it holds the start and the first item once each and the
\* run goes on.
C14_Witness ==
  \E t \in Tenants :
    /\ listeners[t].st = "open"
    /\ ActiveRuns(t) # {}
    /\ \E k \in DOMAIN emitted[t] : IsSchedule(emitted[t][k])
    /\ listeners[t].got = Core(listeners[t].got)
    /\ Len(listeners[t].got) = 2
    /\ IsItem(listeners[t].got[2])

\* The run has passed the point where its start event is published.
Started(r) ==
  r.pc \notin {"idle", "setRunning", "tableExists", "setIdleMissing",
               "countQueue"}

\* The events published since the last start are a start, at most one
\* schedule right after it, then items, then at most one end, and the
\* replay buffer holds the items in the order of their publication.
C15_Order ==
  \A t \in Tenants :
    LET seq == emitted[t] IN
    /\ seq # <<>> => IsStart(seq[1])
    /\ \A k \in DOMAIN seq :
         /\ IsStart(seq[k]) => k = 1
         /\ IsSchedule(seq[k]) => k = 2
         /\ IsEnd(seq[k]) => k = Len(seq)
    /\ Items(t) = SelectSeq(seq, IsItem)

\* C15 -- Event order of a run: the events a run publishes are one start,
\* at most one schedule, zero or more items and one end as the last event,
\* nothing before the start or after the end, and the replay buffer holds
\* the items in publication order; a run that has published its start has
\* published its end when it returns.
C15_EventOrder ==
  /\ [](C15_Order)
  /\ [][\A s \in RunIds :
          (Started(run[s]) /\ Returns(s))
            => LET seq == emitted'[run[s].slug] IN
               seq # <<>> /\ IsEnd(seq[Len(seq)])]_vars

\* C16 -- Guaranteed cleanup on escalation: a run that has published its
\* start event has, when it returns (after which it publishes nothing),
\* published an end event, recorded it in the snapshot and released the
\* lock, whatever status it returns.
C16_CleanupOnEscalation ==
  [][\A s \in RunIds :
       (Started(run[s]) /\ Returns(s))
         => LET t == run[s].slug IN
            /\ t \notin runningClients'
            /\ progressStates'[t].lastEnd # <<>>
            /\ \E k \in DOMAIN emitted'[t] : IsEnd(emitted'[t][k])]_vars

\* C17 -- A run that returns status error leaves the persisted loopStatus
\* at error, where it stays while no other run of the tenant has begun.
C17_ErrorPersisted ==
  \A t \in Tenants :
    (ActiveRuns(t) = {} /\ ret.slug = t /\ ret.status = "error"
       /\ stopLoop[t] = 0)
      => db.settings[t] = "error"

\* C18 -- invalid_slug before any side effect: for a slug without a queue
\* table no settings row is created or written and no event published,
\* and a run of it returns invalid_slug with the lock released.
C18_InvalidSlug ==
  /\ [](\A t \in Tenants :
          <<t, "queue">> \notin db.tables
            => db.settings[t] = "none" /\ emitted[t] = <<>>)
  /\ [][\A s \in RunIds :
          (Returns(s) /\ <<run[s].slug, "queue">> \notin db.tables)
            => /\ ret'.status = "invalid_slug"
               /\ run[s].slug \notin runningClients']_vars

\* C19 -- Per-contact failures are contained: the step that follows a
\* dispatcher failure or a failed statement of the contact's transaction
\* does not end the run, and the contact is published as an item event
\* with status 'error'.
C19_ContactFailureContained ==
  /\ [](\A s \in RunIds :
          (run[s].pc \in {"begin", "delete", "commit", "rollback"}
             /\ run[s].useIA /\ ~run[s].shouldMark)
            => run[s].status = "error")
  /\ [][\A s \in RunIds :
          (run[s].pc \in {"dispatch", "rollback"} /\ run'[s] # run[s])
            => ~Returns(s)]_vars
  /\ [][\A s \in RunIds :
          (run[s].pc = "rollback" /\ run'[s] # run[s] /\ ~Returns(s))
            => LET after == Items(run[s].slug)' IN
               /\ after # <<>>
               /\ after[Len(after)].phone = run[s].phone
               /\ after[Len(after)].status = "error"]_vars

\* C20 -- A cancelled run still ends in idle: once a run has returned
\* stopped and the stop request has been answered, no run being active,
\* the persisted loopStatus is idle.
C20_StoppedEndsIdle ==
  \A t \in Tenants :
    (/\ ActiveRuns(t) = {}
     /\ ret.slug = t /\ ret.status = "stopped"
     /\ stopLoop[t] = 0
     /\ stopRet = [slug |-> t, status |-> "ok"])
      => db.settings[t] = "idle"


\* ------------------------------------------------------------------ C23
\* The sum of the first k delays.
RECURSIVE Sum(_, _)
Sum(seq, k) == IF k = 0 THEN 0 ELSE seq[k] + Sum(seq, k - 1)

\* The second of the day the k-th delay of the call c ends at.
Instant(c, k) == c.nowSec + Sum(c.delays, k)

\* C23: for every count, window and call time the delays returned by
\* generateScheduleDelays are non-negative integers, and the instants they
\* add up to from the call time are strictly increasing (so pairwise
\* distinct) and lie within [effectiveStart, end], effectiveStart being
\* max(now, start).
C23_ScheduleMonotone ==
  schedule.pc = "done" =>
    /\ \A k \in 1..Len(schedule.delays) :
         /\ schedule.delays[k] \in Nat
         /\ EffectiveStart(schedule) <= Instant(schedule, k)
         /\ Instant(schedule, k) <= schedule.endSec
    /\ \A j, k \in 1..Len(schedule.delays) :
         j < k => Instant(schedule, j) < Instant(schedule, k)

\* A call made before the window opens has returned two delays or more.
C23_Witness ==
  /\ schedule.pc = "done"
  /\ schedule.nowSec < schedule.startSec
  /\ Len(schedule.delays) >= 2

\* ------------------------------------------------------------------ C25
\* C25: with the window open generateScheduleDelays returns exactly
\* min(count, span) delays, span being end - max(now, start), and none for
\* a count of zero or less; and the loop that samples the distinct offsets
\* from [0, span] ends, so that every call returns.
C25_ScheduleLength ==
  /\ [](schedule.pc = "done" /\ Span(schedule) > 0 =>
          Len(schedule.delays) = Max(0, Min(schedule.count, Span(schedule))))
  /\ <>(schedule.pc = "done")

\* A call asking for more delays than the open window has seconds has
\* returned as many delays as the window has seconds.
C25_Witness ==
  /\ schedule.pc = "done"
  /\ Span(schedule) >= 2
  /\ schedule.count > Span(schedule)
  /\ Len(schedule.delays) = Span(schedule)

\* ------------------------------------------------------------------ C24
\* The run has its schedule: it is in the loop or past it.
Planned(r) ==
  r.pc \in {"sleep", "select", "selectFallback", "dispatch", "begin",
            "delete", "insert", "commit", "rollback", "setIdleEnd"}

\* C24: when end <= max(now, start) generateScheduleDelays returns the
\* empty list, and a run whose schedule is empty for that reason goes
\* straight to its final status write: it attempts and dispatches no
\* contact, publishes no item event and no step taken while it is active
\* changes the queue or the history.
C24_WindowClosed ==
  [][/\ \A nowSec \in DaySeconds :
          WindowEndSec <= Max(nowSec, WindowStartSec) =>
            \A offsets \in OffsetDraws(DailyLimit, nowSec) :
              generateScheduleDelays(DailyLimit, nowSec, offsets) = <<>>
     /\ \A s \in RunIds :
          Planned(run[s]) /\ run[s].scheduleDelays = <<>> =>
            /\ run[s].pc = "setIdleEnd"
            /\ run[s].attemptedPhones = {} /\ run[s].processed = 0
            /\ db'.queue = db.queue /\ db'.totais = db.totais
            /\ delivered' = delivered
            /\ \A t \in Tenants :
                 emitted'[t] # emitted[t] =>
                   ~IsItem(emitted'[t][Len(emitted'[t])])]_vars

\* A run that has quota left and eligible contacts queued is about to end
\* because the window was closed when it drew its schedule.
C24_Witness ==
  \E s \in RunIds :
    /\ run[s].pc = "setIdleEnd" /\ run[s].scheduleDelays = <<>>
    /\ ~run[s].manualStop /\ run[s].remainingToday > 0
    /\ db.queue[run[s].slug] \ db.totais[run[s].slug] # {}

\* ------------------------------------------------------------------ C22
\* processed, item events and queue size a drain of the full queue must
\* end with.
Drained(r) == Min(NPhones, Min(r.remainingToday, r.batchSize))

\* C22: the first run of a tenant finds all NPhones contacts queued and
\* eligible.  If no store call was rejected, nobody asked for a stop, the
\* dispatcher was enabled and succeeded for every contact attempted and
\* the window had a slot for each of the dailyLimit sends, the run returns
\* processed = min(Q, remainingQuota, batchSize), has published exactly
\* that many item events, all with ok = true, and leaves Q - processed
\* contacts in the queue.
C22_BoundedDrain ==
  [][\A s \in {1} :
       LET r == run[s]
           t == r.slug
       IN /\ Returns(s) /\ r.pc = "setIdleEnd"
          /\ faults' = MaxFaults /\ stopLoop[t] = 0 /\ t \notin stopRequests
          /\ ~r.manualStop /\ r.useIA /\ delivered[t] = r.attemptedPhones
          /\ Len(r.scheduleDelays) = DailyLimit
          => /\ ret'.status = "ok" /\ ret'.processed = Drained(r)
             /\ Len(progressStates'[t].items) = Drained(r)
             /\ \A k \in 1..Len(progressStates'[t].items) :
                  progressStates'[t].items[k].ok
             /\ Cardinality(db'.queue[t]) = NPhones - Drained(r)]_vars

\* ------------------------------------------------------------------ C27
\* The queued contacts of the run's tenant that are not marked sent in the
\* history and were not attempted in this run.
Candidates(s) ==
  {p \in db.queue[run[s].slug] :
     p \notin db.totais[run[s].slug] /\ p \notin run[s].attemptedPhones}

\* C27: when a selection query of an iteration is answered, the contact
\* attempted is the first by name of the queued contacts that are not in
\* attemptedPhones and not marked sent in the history, the queue being
\* read again in every iteration; a contact marked sent is never chosen;
\* and with no such contact the loop ends.
C27_Selection ==
  [][\A s \in RunIds :
       /\ run[s].pc \in {"select", "selectFallback"}
       /\ run'[s] # run[s]
       /\ run'[s].pc \notin {"selectFallback", "idle"}
       => IF Candidates(s) = {}
          THEN /\ run'[s].pc = "setIdleEnd"
               /\ run'[s].attemptedPhones = run[s].attemptedPhones
          ELSE /\ run'[s].phone \in Candidates(s)
               /\ \A q \in Candidates(s) : run'[s].phone <= q
               /\ run'[s].attemptedPhones =
                    run[s].attemptedPhones \cup {run'[s].phone}]_vars

\* ------------------------------------------------------------------ C28
\* The item event published by this step for tenant t, if any.
ItemPublished(t) ==
  IF emitted'[t] # emitted[t] /\ IsItem(emitted'[t][Len(emitted'[t])])
  THEN {emitted'[t][Len(emitted'[t])]}
  ELSE {}

\* C28: useDispatcher is the override of the call when it is a boolean and
\* the tenant's ia_auto otherwise; while a run with useDispatcher = false
\* is in its loop the dispatcher is not invoked, no history record is set
\* to sent, processed stays 0, and every contact whose iteration is not
\* cut by a stop request gets an item event with status 'skipped' and
\* ok = false and is out of the queue when the event is published.
C28_DispatcherDisabled ==
  [][/\ \A ia_auto \in IaFlags :
          /\ useIA(<<>>, ia_auto) = ia_auto
          /\ \A b \in BOOLEAN : useIA(<<b>>, ia_auto) = b
     /\ \A s \in RunIds :
          Planned(run[s]) /\ ~run[s].useIA =>
            /\ run[s].pc # "dispatch" /\ run[s].processed = 0
            /\ delivered' = delivered
            /\ db'.totais = db.totais
            /\ \A e \in ItemPublished(run[s].slug) :
                 e.status # "stopped" =>
                   /\ e.status = "skipped" /\ ~e.ok
                   /\ e.phone \notin db'.queue[run[s].slug]]_vars

\* ------------------------------------------------------------------ C30
\* The timer of sleepAbortable that expires next is the last one of the
\* sleep of iteration i: the sleep answers 'ok'.
LastTimer(r) ==
  r.pc = "sleep" /\ r.elapsed + SleepStep >= r.scheduleDelays[r.i + 1] * SecondMs

\* The run left its loop with manualStop in an iteration whose sleep had
\* run to its end and in which no contact was selected.
StoppedAfterSleep(r) ==
  /\ r.pc = "setIdleEnd" /\ r.manualStop
  /\ r.i < r.messageLimit /\ Cardinality(r.attemptedPhones) = r.i
  /\ r.scheduleDelays[r.i + 1] > 0
  /\ r.elapsed = r.scheduleDelays[r.i + 1] * SecondMs

\* The stop flag is set when the sleep answers 'ok': the check after the
\* sleep leaves the loop with manualStop, nothing having been selected.
C30_Recheck ==
  \A s \in RunIds :
    (LastTimer(run[s]) /\ run[s].slug \in stopRequests /\ run'[s] # run[s])
      => /\ run'[s].pc = "setIdleEnd" /\ run'[s].manualStop
         /\ run'[s].attemptedPhones = run[s].attemptedPhones
         /\ delivered' = delivered

MaxIterations(r) ==
  Min(r.batchSize, Min(Len(r.scheduleDelays), r.remainingToday))

\* C29: when every call a run awaits returns or throws and every sleep
\* ends, every run ends; its loop performs at most min(batchSize,
\* schedule length, remainingQuota) iterations, one contact attempted in
\* each; and a contact attempted once is not selected again in the same
\* run, whether or not it left the queue.
C29_Termination ==
  /\ \A s \in RunIds : (run[s].pc # "idle") ~> (run[s].pc = "idle")
  /\ [](\A s \in RunIds :
          Planned(run[s]) =>
            /\ run[s].i <= MaxIterations(run[s])
            /\ Cardinality(run[s].attemptedPhones) <= MaxIterations(run[s]))
  /\ [][\A s \in RunIds :
          (run'[s].pc # "idle"
             /\ run'[s].attemptedPhones # run[s].attemptedPhones)
            => /\ run'[s].phone \notin run[s].attemptedPhones
               /\ run'[s].attemptedPhones =
                    run[s].attemptedPhones \cup {run'[s].phone}]_vars

\* A run is in its second iteration while the contact of its first one,
\* which was not sent, is still queued.
C29_Witness ==
  \E s \in RunIds :
    /\ Planned(run[s]) /\ run[s].i = 1 /\ run[s].pc # "setIdleEnd"
    /\ run[s].attemptedPhones = {1, 2} /\ run[s].phone = 2
    /\ 1 \in db.queue[run[s].slug] /\ 1 \notin delivered[run[s].slug]

\* ------------------------------------------------------------------ C21
\* The handler of t sends its answer in this step.
Answers(t) == loopState[t].pc = "count" /\ loopState'[t].pc = "answered"

\* C21 -- Status surface self-heal: the actually_running of an answer is
\* the membership of the slug in runningClients when the answer is sent;
\* a handler that finds the persisted loop_status 'running' and no run
\* active reports 'idle' and rewrites the persisted status to 'idle'; and
\* no answer reports 'running' with actually_running false.
C21_SelfHeal ==
  [][\A t \in Tenants :
       /\ Answers(t) =>
            /\ loopState'[t].isActuallyRunning = (t \in runningClients)
            /\ ~(loopState'[t].loop_status = "running"
                   /\ ~loopState'[t].isActuallyRunning)
       /\ (loopState[t].pc = "select" /\ loopState'[t].pc # "select"
             /\ db.settings[t] = "running" /\ t \notin runningClients
             /\ faults' = faults) =>
            loopState'[t].pc = "heal" /\ loopState'[t].loop_status = "idle"
       /\ (loopState[t].pc = "heal" /\ loopState'[t].pc # "heal"
             /\ faults' = faults) =>
            db'.settings[t] = "idle"]_vars

\* ------------------------------------------------------------------ C26
\* This step is one of the timer's callback.
TimerStep == autoRun' # autoRun /\ autoRun.pc # "armed"

\* C26 -- Daily auto-trigger: a firing of the daily timer starts a run
\* for a tenant only if the lookup returned it (auto_run = true), its
\* queue table exists and is not empty and it has no active run, at most
\* once per firing; it starts one for each such tenant whose tableExists
\* and COUNT are answered; it leaves the run of a tenant that is already
\* running alone; and whatever fails, the callback ends with the timer
\* armed again.
C26_DailyAutoRun ==
  /\ [][TimerStep =>
          /\ \A t \in Tenants :
               (t \notin runningClients /\ t \in runningClients') =>
                 /\ t \in autoRun.auto /\ t \notin autoRun.started
                 /\ <<t, "queue">> \in db.tables /\ db.queue[t] # {}
                 /\ runs' = runs + 1
          /\ \A s \in RunIds : run[s].pc # "idle" => run'[s] = run[s]
          /\ (autoRun.pc = "exists" /\ faults' = faults
                /\ <<Head(autoRun.rows), "queue">> \in db.tables) =>
               autoRun'.pc = "count"
          /\ (autoRun.pc = "count" /\ faults' = faults
                /\ <<Head(autoRun.rows), "queue">> \in db.tables
                /\ db.queue[Head(autoRun.rows)] # {}
                /\ Head(autoRun.rows) \notin runningClients) =>
               /\ Head(autoRun.rows) \in runningClients'
               /\ Head(autoRun.rows) \in autoRun'.started]_vars
  /\ (autoRun.pc # "armed") ~> (autoRun.pc = "armed")

\* ------------------------------------------------------------------ C31
\* C31 -- Replay buffer bound: a snapshot never holds more than 200
\* events and every one of them is an item event; a step that adds an
\* event to a buffer of 200 leaves the 199 newest of them followed by the
\* new item, and a step that adds one to a shorter buffer drops nothing.
C31_BufferBound ==
  /\ [](\A t \in Tenants :
          /\ Len(Items(t)) <= SnapshotCap
          /\ \A k \in DOMAIN Items(t) : IsItem(Items(t)[k]))
  /\ [][\A t \in Tenants :
          LET old == progressStates[t].items
              new == progressStates'[t].items
          IN (new # old /\ new # <<>>) =>
               /\ IsItem(new[Len(new)])
               /\ IF Len(old) = SnapshotCap
                  THEN /\ Len(new) = SnapshotCap
                       /\ SubSeq(new, 1, SnapshotCap - 1) = Tail(old)
                  ELSE SubSeq(new, 1, Len(new) - 1) = old]_vars

\* The buffer is full and its two oldest items have been dropped.
C31_Witness ==
  \E t \in Tenants :
    /\ Len(Items(t)) = SnapshotCap
    /\ Items(t)[1].phone = 3 /\ Items(t)[SnapshotCap].phone = SnapshotCap + 2

\* ------------------------------------------------------------------ C32
\* The events of a sequence.
Events(seq) == {seq[k] : k \in DOMAIN seq}

\* C32 -- Snapshot lifecycle: the step in which a run publishes its start
\* leaves the tenant's snapshot with that start, no item and no end; every
\* event a subscriber would be replayed has been emitted since the last
\* start; and while no run of the tenant is active a snapshot whose
\* lastEnd is set does not change.
C32_SnapshotLifecycle ==
  /\ [][\A s \in RunIds :
          (run[s].pc = "countQueue" /\ run'[s].pc = "getSettings") =>
            LET st == progressStates'[run[s].slug] IN
            /\ st.has /\ Len(st.lastStart) = 1 /\ IsStart(st.lastStart[1])
            /\ st.items = <<>> /\ st.lastEnd = <<>>
            /\ emitted'[run[s].slug] = st.lastStart]_vars
  /\ [](\A t \in Tenants :
          Events(replay(progressStates[t])) \subseteq Events(emitted[t]))
  /\ [][\A t \in Tenants :
          (ActiveRuns(t) = {} /\ progressStates[t].lastEnd # <<>>) =>
            progressStates'[t] = progressStates[t]]_vars

\* ------------------------------------------------------------------ C33
\* This step is one of a run, a stop request or a subscription of tenant t.
Moves(t) ==
  \/ \E s \in RunIds :
       run'[s] # run[s] /\ (run[s].slug = t \/ run'[s].slug = t)
  \/ stopLoop'[t] # stopLoop[t]
  \/ listeners'[t].st # listeners[t].st

\* C33 -- Tenant isolation: a step that is not one of tenant B's own run,
\* stop request or subscription leaves B's single-flight entry, stop flag,
\* progress snapshot, subscribers, queue, history and persisted loopStatus
\* as they were.
C33_TenantIsolation ==
  [][\A B \in Tenants :
       ~Moves(B) =>
         /\ (B \in runningClients') = (B \in runningClients)
         /\ (B \in stopRequests') = (B \in stopRequests)
         /\ progressStates'[B] = progressStates[B]
         /\ listeners'[B] = listeners[B]
         /\ db'.queue[B] = db.queue[B]
         /\ db'.totais[B] = db.totais[B]
         /\ db'.settings[B] = db.settings[B]]_vars

\* ------------------------------------------------------------------ C34
\* C34 -- No duplicate delivery across runs: the contact a run hands to
\* the dispatcher is never one for which the dispatcher has already
\* reported success.
C34_NoDuplicateDelivery ==
  [][\A s \in RunIds :
       (run[s].pc # "dispatch" /\ run'[s].pc = "dispatch") =>
         run'[s].phone \notin delivered[run'[s].slug]]_vars

\* ------------------------------------------------------------------ C35
\* The item events of a sequence that carry ok = true.
OkItems(seq) == {k \in DOMAIN seq : IsItem(seq[k]) /\ seq[k].ok}

\* C35 -- Processed-count consistency: when the first run of a tenant
\* leaves its loop and returns ok or stopped, the processed value it
\* returns is the one of its end event, is the number of queued contacts
\* the history then holds as sent, and is the number of its item events
\* with ok = true.
C35_ProcessedCount ==
  [][\A s \in {1} :
       LET t == run[s].slug IN
       (run[s].pc = "setIdleEnd" /\ Returns(s) /\ runs = 1 /\
        ret'.status # "error") =>
         /\ progressStates'[t].lastEnd # <<>>
         /\ progressStates'[t].lastEnd[1].processed = ret'.processed
         /\ ret'.processed = Cardinality(db'.totais[t] \cap Phones)
         /\ ret'.processed = Cardinality(OkItems(emitted'[t]))]_vars

\* ------------------------------------------------------------------ C36
\* C36 -- No dispatch under a set stop flag: whenever a run hands a
\* contact to the dispatcher, the stop flag of its tenant is not set.
C36_NoDispatchUnderStop ==
  [][\A s \in RunIds :
       (run[s].pc # "dispatch" /\ run'[s].pc = "dispatch") =>
         run'[s].slug \notin stopRequests']_vars

\* ------------------------------------------------------------------ C37
\* C37 -- Registry ownership: a slug leaves runningClients only in the
\* step in which a run of that slug returns, a stop flag of a slug with an
\* active run is cleared only in such a step, and a slug with an active
\* run is in runningClients, so that no second run of it is active.
C37_RegistryOwnership ==
  /\ [][\A t \in Tenants :
         ((t \in runningClients /\ t \notin runningClients') \/
          (ActiveRuns(t) # {} /\ t \in stopRequests /\ t \notin stopRequests'))
           => \E s \in RunIds : run[s].slug = t /\ Returns(s)]_vars
  /\ [](\A t \in Tenants :
         ActiveRuns(t) # {} =>
           t \in runningClients /\ Cardinality(ActiveRuns(t)) = 1)

\* ------------------------------------------------------------------ C38
\* C38 -- Self-heal never clobbers an active run: while a run is past its
\* 'running' write and has not returned, the persisted loop_status of its
\* tenant is 'running' or 'stopping'.
C38_HealKeepsRunning ==
  \A s \in RunIds :
    run[s].pc \notin {"idle", "setRunning"} =>
      db.settings[run[s].slug] \in {"running", "stopping"}

\* ------------------------------------------------------------------ C39
\* C39 -- An accepted stop is never lost: when the first run of a tenant
\* returns after a stop request for the tenant was answered ok, it
\* returns stopped and the end event it published carries manual_stop.
C39_StopNeverLost ==
  [][\A s \in {1} :
       LET t == run[s].slug IN
       (Returns(s) /\ runs = 1 /\ stopRet = [slug |-> t, status |-> "ok"]) =>
         /\ ret'.status = "stopped"
         /\ progressStates'[t].lastEnd =
              <<EndEvent(ret'.processed, "manual_stop")>>]_vars

====
